---- MODULE Spec2Model ----
(***************************************************************************)
(* Model of the aetheric-engine logic core.                                *)
(*                                                                         *)
(* Spec:          SceneManager (src/src/core/scene/scene_manager.rs) and   *)
(*                the SceneTransition queue it drains every tick.          *)
(* BusSpec:       MessageBus (src/src/core/message_bus/messgae_bus.rs).    *)
(* FrameSpec:     GlobalSystems::update on the whole GlobalContext         *)
(*                (src/src/core/globals/global_systems.rs).                *)
(* CollectorSpec: EventCollector::collect_frame                            *)
(*                (src/src/core/platform_bridge/event_collector.rs).       *)
(* CoreSpec:      the thread of CoreSystemsOrchestrator::spawn_core_thread *)
(*                (src/src/core/mod.rs); CoreLiveSpec adds its fairness.   *)
(* EngineSpec:    the platform thread and the logic thread on the bounded  *)
(*                channel of Engine::run (src/src/engine.rs).              *)
(*                EngineLiveSpec adds the scheduling of the two threads    *)
(*                and a logic thread that may exit at any tick.            *)
(* TrackerSpec:   StateTracker (src/src/core/input/state_tracker.rs).      *)
(* BufferSpec:    InputBuffer (src/src/platform/input_buffer.rs).          *)
(* MapperSpec:    ActionMapper (src/src/core/input/action_mapper.rs).      *)
(* FlushSpec:     Platform::flush_input_buffer on the InputBuffer and the  *)
(*                channel (src/src/platform/mod.rs).                       *)
(* ConfigSpec:    EngineBuilder, Engine::run and spawn_core_thread up to   *)
(*                the first ticks (src/src/engine.rs, src/src/core/mod.rs).*)
(***************************************************************************)
EXTENDS Integers, Sequences, FiniteSets, TLC

\* ------------------------------------------------------------------------
\* Bounds
\* ------------------------------------------------------------------------

\* Largest number of SceneTransition messages queued on the bus in one tick.
MaxQueue == 2

\* Largest number of messages one message type holds on the bus.
MaxMsgs == 2

\* Largest number of input events handed to one tick.
MaxEvents == 2

\* Largest number of platform events sent into the channel.
MaxSent == 102

\* Engine.channel_capacity, the capacity Engine::run gives the channel.
channel_capacity == 2

\* Largest number of discrete events the platform buffers between drains.
MaxBuffered == 3

\* ------------------------------------------------------------------------
\* Values
\* ------------------------------------------------------------------------

\* Scene keys: the TestScene enum of the scene manager's tests.
SceneKeys == {"A", "B", "C"}

\* A registered scene object, reduced to what the manager asks of it:
\* Scene::is_transparent (false by default).
SceneKinds == {"opaque", "transparent"}

\* The scene objects the host has for each key: A keeps the default
\* is_transparent, B overrides it (an overlay), C exists in both forms.
SceneKindsOf(key) ==
    CASE key = "A" -> {"opaque"}
      [] key = "B" -> {"transparent"}
      [] OTHER -> SceneKinds

\* HashMap::get on a key that was never inserted.
NotRegistered == "none"

\* enum SceneTransition<K>
SceneTransition ==
    {<<"Push", k>> : k \in SceneKeys}
        \cup {<<"Remove", k>> : k \in SceneKeys}
        \cup {<<"Replace", o, n>> : o \in SceneKeys, n \in SceneKeys}
        \cup {<<"Clear">>, <<"Empty">>}

\* ------------------------------------------------------------------------
\* Vec helpers
\* ------------------------------------------------------------------------

Range(s) == {s[i] : i \in DOMAIN s}

\* Vec::contains
Contains(s, k) == \E i \in DOMAIN s : s[i] = k

\* Iterator::position: index of the first match, 0 for None.
Position(s, k) ==
    IF Contains(s, k)
    THEN CHOOSE i \in DOMAIN s : s[i] = k /\ \A j \in 1..(i - 1) : s[j] # k
    ELSE 0

\* Vec::remove(pos): later elements shift left.
RemoveAt(s, pos) == SubSeq(s, 1, pos - 1) \o SubSeq(s, pos + 1, Len(s))

\* Vec::push(x) where the code has Vec::insert(0, x).
InsertBack(s, x) == s \o <<x>>

\* Vec::insert(0, x)
InsertFront(s, x) == <<x>> \o s

\* The message types on the bus (the TypeId keys of MessageBus::queues): the
\* scene transitions, the host's action type and one more host type.
MsgTypes == {"SceneTransition", "Action", "Custom"}

\* The host's action values.
Actions == {"Jump", "Fire"}

\* The values of each message type that are pushed.
Messages(ty) ==
    CASE ty = "SceneTransition" -> {<<"Push", "A">>, <<"Clear">>}
      [] ty = "Action" -> Actions
      [] ty = "Custom" -> {"m1"}

\* The keys whose KeyDown events reach a tick.
Keys == {"Space", "KeyF", "KeyX"}

\* The host's bindings: Space and KeyF are bound, KeyX is not.
Bindings == [k \in {"Space", "KeyF"} |-> IF k = "Space" THEN "Jump" ELSE "Fire"]

\* EventCollector::collect_frame, const MAX_EVENTS_PER_FRAME
MAX_EVENTS_PER_FRAME == 100

\* CoreSystemsOrchestrator::collect_platform_events, const MAX_EVENTS_PER_FRAME
CORE_MAX_EVENTS_PER_FRAME == 100

\* PlatformEvent::Inputs, the n-th message of the platform: the first carries
\* discrete events only, the second discrete and continuous ones, the third
\* continuous ones only, the later ones carry two empty lists. The event n
\* is discrete, the event -n continuous.
Inputs(n) ==
    [kind |-> "Inputs", id |-> n,
     discrete |-> IF n <= 2 THEN <<n>> ELSE <<>>,
     continuous |-> IF n \in {2, 3} THEN <<-n>> ELSE <<>>]

\* The Inputs messages numbered n + 1 to n + k.
InputsRun(n, k) == [i \in 1..k |-> Inputs(n + i)]

\* The numbers of messages the platform sends in a row while the logic thread
\* is in its pacing sleep.
Bursts == {50, 51}

\* PlatformEvent::WindowClosed, sent as the n-th message.
WindowClosed(n) ==
    [kind |-> "WindowClosed", id |-> n, discrete |-> <<>>, continuous |-> <<>>]

\* Modifiers::NONE; a Modifiers value is the set of its flags that are true.
NONE == {}

\* The Modifiers values in use: NONE, CTRL and SHIFT_CTRL.
Modifiers == {NONE, {"ctrl"}, {"shift", "ctrl"}}

\* An InputEvent: code is the key or mouse button, pos the (x, y) of a
\* MouseMoved; a variant without the field carries a fixed filler.
Event(type, code, modifiers, pos) ==
    [type |-> type, code |-> code, modifiers |-> modifiers, pos |-> pos]

\* The cursor positions of MouseMoved events, in pixels.
Positions == {<<10, 10>>, <<99, 88>>}

\* The events the state tracker is fed: one key, one mouse button, two
\* modifier states, cursor moves and the Unidentified event.
TrackerEvents ==
    {Event(ty, "Space", m, <<0, 0>>) :
        ty \in {"KeyDown", "KeyUp"}, m \in {NONE, {"ctrl"}}}
    \cup {Event(ty, "Left", m, <<0, 0>>) :
            ty \in {"MouseButtonDown", "MouseButtonUp"}, m \in {NONE, {"ctrl"}}}
    \cup {Event("MouseMoved", "none", NONE, p) : p \in Positions}
    \cup {Event("Unidentified", "none", NONE, <<0, 0>>)}

\* The discrete events the platform buffers.
DiscreteEvents ==
    {Event("KeyDown", "Space", NONE, <<0, 0>>),
     Event("KeyUp", "Space", NONE, <<0, 0>>),
     Event("KeyDown", "Space", {"ctrl"}, <<0, 0>>),
     Event("MouseButtonDown", "Left", NONE, <<0, 0>>)}

\* The discrete events buffered between the flushes of FlushSpec.
FlushEvents == {Event("KeyDown", "Space", NONE, <<0, 0>>)}

\* InputContext: Primary and Custom(0).
InputContexts == {"Primary", "Custom0"}

\* The key bindings the host asks for, as <<key, modifiers, action>>: Space
\* under every modifier state, Ctrl+Space with either action, KeyF plain.
KeyBinds ==
    {<<"Space", NONE, "Jump">>, <<"Space", {"ctrl"}, "Jump">>,
     <<"Space", {"ctrl"}, "Fire">>, <<"Space", {"shift", "ctrl"}, "Fire">>,
     <<"KeyF", NONE, "Fire">>}

\* The Down events the mapper is asked to resolve: every key and the mouse
\* button under every modifier state.
DownEvents ==
    {Event("KeyDown", k, m, <<0, 0>>) : k \in {"Space", "KeyF"}, m \in Modifiers}
    \cup {Event("MouseButtonDown", "Left", m, <<0, 0>>) : m \in Modifiers}

\* The events that are not Down events: releases of every key and of the
\* mouse button under every modifier state, cursor moves and Unidentified.
NonDownEvents ==
    {Event("KeyUp", k, m, <<0, 0>>) : k \in {"Space", "KeyF"}, m \in Modifiers}
    \cup {Event("MouseButtonUp", "Left", m, <<0, 0>>) : m \in Modifiers}
    \cup {Event("MouseMoved", "none", NONE, p) : p \in Positions}
    \cup {Event("Unidentified", "none", NONE, <<0, 0>>)}

\* The event batches handed to one call of process_events.
TrackerBatches ==
    {<<e>> : e \in TrackerEvents} \cup {<<e, f>> : e, f \in TrackerEvents}

\* An f64 tick rate: NaN, +infinity, or sign * num * 2^exp with sign -1, 0
\* or 1. A usize has the same shape, with exp = 0.
Finite(sign, num, exp) ==
    [class |-> "finite", sign |-> sign, num |-> num, exp |-> exp]

INFINITY == [class |-> "inf", sign |-> 1, num |-> 0, exp |-> 0]

NAN == [class |-> "nan", sign |-> 0, num |-> 0, exp |-> 0]

\* The tick rates the host asks for: -10, 0, 2^-70, 2^-64, 3 * 2^-65, 60,
\* 120, +infinity and NaN.
TpsValues ==
    {Finite(-1, 5, 1), Finite(0, 0, 0), Finite(1, 1, -70), Finite(1, 1, -64),
     Finite(1, 3, -65), Finite(1, 15, 2), Finite(1, 15, 3), INFINITY, NAN}

\* The channel capacities the host asks for.
Capacities == {0, 1, 2, 128}

\* HashMap::get on a TypeId that has no queue yet.
NoQueue == [present |-> FALSE, msgs |-> <<>>]

\* ------------------------------------------------------------------------
\* State
\* ------------------------------------------------------------------------

VARIABLES
    queues,     \* MessageBus.queues: type -> [present, msgs], msgs in Vec order
    sinceClear, \* type -> the messages pushed since the type was last cleared
    pushedEver, \* the types that were ever pushed
    busOp       \* the last MessageBus call: [op, ty, result] and had, the
                \* count of every type when it was made

busVars == <<queues, sinceClear, pushedEver, busOp>>

VARIABLES
    frame_input_events, \* GlobalContext.frame_input_events, pressed keys
    inputActions,       \* InputSystem: the actions resolved by process_frame
    atUpdate            \* read::<A>() as the last scene_manager.update saw it

frameVars == <<frame_input_events, inputActions, atUpdate>>

VARIABLES
    chan,       \* the channel of PlatformEvent, oldest first
    connected,  \* TRUE while a Sender of the channel exists
    sent,       \* number of messages sent so far
    platform    \* "running", or "exited" once the event loop was told to exit

chanVars == <<chan, connected, sent, platform>>

VARIABLES
    input_batches, \* EventCollector.input_batches
    control,       \* the TickControl the last collect_frame returned, or "none"
    taken,         \* number of events taken off the channel so far
    warned         \* TRUE if the last collect_frame logged a backlog warning

collectorVars == <<input_batches, control, taken, warned>>

VARIABLES
    corePc,     \* where the thread of spawn_core_thread is: "collect",
                \* "update", or "done" once it left its loop
    processed   \* the input_batches of the last input_system.process_frame

coreVars == <<corePc, processed>>

VARIABLES
    blocked     \* the message of a Sender::send of the platform thread that
                \* has not returned yet, as <<message>>; <<>> if there is none

bridgeVars == <<blocked>>

VARIABLES
    input_state, \* GlobalContext.input_state, the StateTracker
    trackOp,     \* the last StateTracker call: "new", "clear",
                 \* "process_events" or "finalize_frame"
    rose,        \* keys and buttons that went from not held to held since
                 \* the last clear
    fell,        \* keys and buttons that went from held to not held since
                 \* the last clear
    atClear,     \* the mouse position when clear was last called
    heldAtClear, \* the held keys and buttons when clear was last called
    moved,       \* <<position>> of the last MouseMoved since the last
                 \* clear, <<>> if there was none
    lastMods     \* the modifiers of the last key or button event processed

trackerVars ==
    <<input_state, trackOp, rose, fell, atClear, heldAtClear, moved, lastMods>>

VARIABLES
    buffer,     \* Platform.buffer, the InputBuffer: discrete in Vec order,
                \* continuous as the HashSet's elements
    bufOp,      \* the last InputBuffer call
    drained,    \* what the last drain returned (some = FALSE for None), and
                \* moves, the value of lastMove when it was called
    lastMove    \* <<first, last>>, the positions of the first and of the
                \* last push_continuous since the last drain; <<>> if there
                \* was none

bufferVars == <<buffer, bufOp, drained, lastMove>>

VARIABLES
    mapper,     \* the ActionMapper: key_bindings and mouse_bindings as
                \* functions on the bound (input, modifiers, context)
                \* triples, and current_context
    mapOp,      \* the last ActionMapper call
    bound       \* the function from the (input, modifiers, context) triples
                \* that were bound and not unbound since to the action last
                \* bound to them

mapperVars == <<mapper, mapOp, bound>>

VARIABLES
    config      \* the engine from builder to running: stage ("builder",
                \* "engine", "spawned" once the logic thread is spawned, or
                \* "panicked"), the EngineBuilder / Engine fields, and the
                \* last configuration call with its argument

configVars == <<config>>

\* The input path outside the tick: the platform thread's sends and buffer,
\* the state tracker, the action mapper and the engine's configuration.
deviceVars == <<bridgeVars, trackerVars, bufferVars, mapperVars, configVars>>

VARIABLES
    scenes,     \* SceneManager.scenes: key -> scene kind, or NotRegistered
    stack,      \* SceneManager.stack: Vec<S>, bottom first, top last
    queue,      \* MessageBus queue of SceneTransition<S>, in Vec order
    phase,      \* "init" (initialization callback) or "running" (tick loop)
    lastOp,     \* the operation that produced this state
    calls,      \* Scene callbacks made by lastOp: <<hook, key, stack at call>>
    steps,      \* per transition applied by lastOp: [t, before, after, calls]
    arrived,    \* transitions pushed since the last process_transitions
    tickStack,  \* SceneManager.stack when lastOp began
    entered,    \* key -> number of on_enter calls since the key joined the stack
    awaiting    \* keys placed in the stack by register_default, on_enter still due

sceneVars == <<scenes, stack, queue, phase, lastOp, calls, steps, arrived,
               tickStack, entered, awaiting>>

\* Everything but the scene system.
nonSceneVars ==
    <<busVars, frameVars, chanVars, collectorVars, coreVars, deviceVars>>

\* Everything but the bus.
nonBusVars ==
    <<sceneVars, frameVars, chanVars, collectorVars, coreVars, deviceVars>>

\* Everything but the channel and what drains it.
nonChanVars == <<sceneVars, busVars, frameVars, coreVars, deviceVars>>

\* The GlobalContext and the systems that work on it.
gameVars == <<sceneVars, busVars, frameVars, deviceVars>>

vars == <<sceneVars, busVars, frameVars, chanVars, collectorVars, coreVars,
          deviceVars>>

\* The SceneManager and what its callbacks did, as one value the methods
\* transform.
Manager == [scenes |-> scenes, stack |-> stack, calls |-> <<>>, steps |-> <<>>,
            entered |-> entered, awaiting |-> awaiting]

\* ------------------------------------------------------------------------
\* MessageBus, the queue of one message type
\* ------------------------------------------------------------------------

\* MessageBus::push: Vec::push on the type's queue.
push(q, msg) == Append(q, msg)

\* MessageBus::read: the queue as a slice, nothing consumed.
read(q) == q

\* clear that leaves the queue as it is.
clear_keeps(q) == q

\* MessageBus::clear: Vec::clear on the type's queue.
clear(q) == <<>>

\* ------------------------------------------------------------------------
\* MessageBus, the map of all message types
\* ------------------------------------------------------------------------

\* MessageBus::push that puts the message in front of the queue.
bus_push_front(b, ty, msg) ==
    [b EXCEPT ![ty] = [present |-> TRUE, msgs |-> <<msg>> \o @.msgs]]

\* MessageBus::push: entry(type_id).or_insert_with(Vec::new), then Vec::push.
bus_push(b, ty, msg) ==
    [b EXCEPT ![ty] = [present |-> TRUE, msgs |-> push(@.msgs, msg)]]

\* MessageBus::read: the slice of the type's queue, &[] without a queue.
bus_read(b, ty) == IF b[ty].present THEN read(b[ty].msgs) ELSE <<>>

\* MessageBus::has_messages
has_messages(b, ty) == IF b[ty].present THEN b[ty].msgs # <<>> ELSE FALSE

\* MessageBus::count
count(b, ty) == IF b[ty].present THEN Len(b[ty].msgs) ELSE 0

\* MessageBus::clear that empties the queue of every type.
bus_clear_every(b, ty) ==
    [u \in DOMAIN b |-> IF b[u].present THEN [b[u] EXCEPT !.msgs = <<>>] ELSE b[u]]

\* MessageBus::clear: empties the type's queue if it exists, keeps the entry.
bus_clear(b, ty) ==
    IF b[ty].present THEN [b EXCEPT ![ty].msgs = clear(@)] ELSE b

\* MessageBus::clear_all that reaches the action queue only.
clear_all_actions_only(b) == bus_clear(b, "Action")

\* MessageBus::clear_all: clear_queue on every queue of the map.
clear_all(b) ==
    [ty \in DOMAIN b |-> IF b[ty].present
                         THEN [b[ty] EXCEPT !.msgs = clear(@)]
                         ELSE b[ty]]

\* ------------------------------------------------------------------------
\* InputSystem and the publication of its actions
\* ------------------------------------------------------------------------

\* InputSystem::process_frame followed by InputSystem::actions: the actions the
\* bindings give for the pressed keys of the tick, each once, in the order of
\* their first press.
RECURSIVE process_frame(_, _)
process_frame(events, resolved) ==
    IF events = <<>>
    THEN resolved
    ELSE LET k == Head(events)
             r == IF k \in DOMAIN Bindings /\ ~Contains(resolved, Bindings[k])
                  THEN Append(resolved, Bindings[k])
                  ELSE resolved
         IN process_frame(Tail(events), r)

\* The for loop of GlobalSystems::update over input.actions(), from index i.
RECURSIVE push_actions(_, _, _)
push_actions(b, acts, i) ==
    IF i > Len(acts)
    THEN b
    ELSE push_actions(bus_push(b, "Action", acts[i]), acts, i + 1)

\* Step 2 of GlobalSystems::update without the clear of the action queue.
publish_actions_unclear(b, acts) == push_actions(b, acts, 1)

\* GlobalSystems::update, step 2: clear::<A>(), then push every action.
publish_actions(b, acts) == push_actions(bus_clear(b, "Action"), acts, 1)

\* ------------------------------------------------------------------------
\* EventCollector
\* ------------------------------------------------------------------------

\* handle_event that pushes the continuous list before the discrete one.
handle_inputs_continuous_first(batches, event) ==
    LET c == IF event.continuous # <<>> THEN Append(batches, event.continuous)
             ELSE batches
    IN IF event.discrete # <<>> THEN Append(c, event.discrete) ELSE c

\* EventCollector::handle_event on an Inputs message: the non-empty lists are
\* pushed, the discrete list first.
handle_inputs(batches, event) ==
    LET d == IF event.discrete # <<>> THEN Append(batches, event.discrete)
             ELSE batches
    IN IF event.continuous # <<>> THEN Append(d, event.continuous) ELSE d

\* Iterator::min of two counts.
Min(a, b) == IF a < b THEN a ELSE b

\* Index of the first WindowClosed among the first limit events of ch, 0 if
\* there is none.
FirstClosed(ch, limit) ==
    LET hits == {i \in 1..limit : ch[i].kind = "WindowClosed"}
    IN IF hits = {} THEN 0 ELSE CHOOSE i \in hits : \A j \in hits : i <= j

\* handle_event on each of the Inputs messages of events, in order.
RECURSIVE push_batches(_, _)
push_batches(batches, events) ==
    IF events = <<>>
    THEN batches
    ELSE push_batches(handle_inputs(batches, Head(events)), Tail(events))

\* The events of a run on which handle_event pushes something.
WithBatches(events) ==
    SelectSeq(events, LAMBDA e : e.discrete # <<>> \/ e.continuous # <<>>)

\* The state c of a drain loop after it took the first n events of the
\* channel, the last of them a WindowClosed if closed is TRUE: handle_event
\* ran on every one, drained counts those that were Inputs.
Drained(c, n, closed) ==
    LET inputs == IF closed THEN n - 1 ELSE n
    IN [c EXCEPT !.chan = SubSeq(@, n + 1, Len(@)),
                 !.batches = push_batches(@, WithBatches(SubSeq(c.chan, 1, inputs))),
                 !.drained = @ + inputs,
                 !.dequeued = @ + n]

\* collect_frame whose loop has no cap on the events of one call.
collect_loop_uncapped(c, conn) ==
    LET limit == Len(c.chan)
        closed == FirstClosed(c.chan, limit)
    IN IF closed > 0
       THEN [Drained(c, closed, TRUE) EXCEPT !.control = "Exit"]
       ELSE [Drained(c, limit, FALSE) EXCEPT
                !.control = IF ~conn THEN "Exit" ELSE "Continue"]

\* collect_frame whose loop only breaks when try_recv finds the channel
\* disconnected.
collect_loop_disconnect_breaks(c, conn) ==
    LET limit == Min(Len(c.chan), MAX_EVENTS_PER_FRAME - c.drained)
        closed == FirstClosed(c.chan, limit)
    IN IF closed > 0
       THEN [Drained(c, closed, TRUE) EXCEPT !.control = "Exit"]
       ELSE [Drained(c, limit, FALSE) EXCEPT !.control = "Continue"]

\* The while loop of EventCollector::collect_frame, all its iterations. c
\* holds the channel, the batches, the loop counter drained and the count of
\* events taken off the channel; conn tells whether a sender is left. The
\* loop takes events while drained < MAX_EVENTS_PER_FRAME and returns Exit at
\* the first WindowClosed it takes; with the channel empty before the cap,
\* try_recv gives Disconnected (Exit) without a sender and Empty (break)
\* with one; after the loop the call returns Continue.
collect_loop(c, conn) ==
    LET limit == Min(Len(c.chan), MAX_EVENTS_PER_FRAME - c.drained)
        closed == FirstClosed(c.chan, limit)
    IN IF closed > 0
       THEN [Drained(c, closed, TRUE) EXCEPT !.control = "Exit"]
       ELSE [Drained(c, limit, FALSE) EXCEPT
                !.control = IF c.drained + limit < MAX_EVENTS_PER_FRAME /\ ~conn
                            THEN "Exit"
                            ELSE "Continue"]

\* EventCollector::collect_frame: input_batches.clear(), then the loop.
collect_frame(ch, conn) ==
    collect_loop([chan |-> ch, batches |-> <<>>, drained |-> 0, dequeued |-> 0,
                  control |-> "none"], conn)

\* ------------------------------------------------------------------------
\* CoreSystemsOrchestrator
\* ------------------------------------------------------------------------

\* The non-blocking drain of collect_platform_events, all its iterations: it
\* takes events while drained < MAX_EVENTS_PER_FRAME and returns Exit at the
\* first WindowClosed it takes; any Err of try_recv, Empty or Disconnected,
\* breaks the loop, and the call returns Continue.
drain_loop(c) ==
    LET limit == Min(Len(c.chan), CORE_MAX_EVENTS_PER_FRAME - c.drained)
        closed == FirstClosed(c.chan, limit)
    IN IF closed > 0
       THEN [Drained(c, closed, TRUE) EXCEPT !.control = "Exit"]
       ELSE [Drained(c, limit, FALSE) EXCEPT !.control = "Continue"]

\* collect_platform_events whose recv_timeout takes nothing off the channel
\* and reports a timeout.
collect_platform_events_timeout(ch, conn) ==
    [chan |-> ch, batches |-> <<>>, drained |-> 0, dequeued |-> 0,
     control |-> "Continue"]

\* collect_platform_events that takes a disconnected channel for a timeout.
collect_platform_events_no_disconnect(ch, conn) ==
    LET c == [chan |-> ch, batches |-> <<>>, drained |-> 0, dequeued |-> 0,
              control |-> "none"]
    IN IF ch # <<>>
       THEN LET event == Head(ch)
                got == [c EXCEPT !.chan = Tail(@), !.dequeued = @ + 1]
            IN IF event.kind = "WindowClosed"
               THEN [got EXCEPT !.control = "Exit"]
               ELSE drain_loop([got EXCEPT !.batches = handle_inputs(@, event)])
       ELSE [c EXCEPT !.control = "Continue"]

\* CoreSystemsOrchestrator::collect_platform_events: input_batches.clear(),
\* recv_timeout for the first event (Timeout on an empty channel that still
\* has a sender, Disconnected on an empty one that has none), then the drain.
collect_platform_events(ch, conn) ==
    LET c == [chan |-> ch, batches |-> <<>>, drained |-> 0, dequeued |-> 0,
              control |-> "none"]
    IN IF ch # <<>>
       THEN LET event == Head(ch)
                got == [c EXCEPT !.chan = Tail(@), !.dequeued = @ + 1]
            IN IF event.kind = "WindowClosed"
               THEN [got EXCEPT !.control = "Exit"]
               ELSE drain_loop([got EXCEPT !.batches = handle_inputs(@, event)])
       ELSE IF ~conn
       THEN [c EXCEPT !.control = "Exit"]
       ELSE [c EXCEPT !.control = "Continue"]

\* The tick loop that goes on to the update whatever the collection returned.
after_collect_always_update(ctl) == "update"

\* The tick loop of spawn_core_thread after step 1: break on Exit, else step 2.
after_collect(ctl) == IF ctl = "Exit" THEN "done" ELSE "update"

\* ------------------------------------------------------------------------
\* Scene callbacks
\* ------------------------------------------------------------------------

\* A call of a Scene trait method on the scene stored under key k.
CallHook(m, hook, k) == [m EXCEPT !.calls = Append(@, <<hook, k, m.stack>>)]

\* Scene::on_enter
on_enter(m, k) ==
    [CallHook(m, "on_enter", k) EXCEPT !.entered[k] = IF @ < 2 THEN @ + 1 ELSE 2,
                                       !.awaiting = @ \ {k}]

\* Scene::on_exit
on_exit(m, k) == CallHook(m, "on_exit", k)

\* Scene::update
scene_update(m, k) == CallHook(m, "update", k)

\* Bookkeeping when key k stops being in the stack.
LeftStack(m, k) == [m EXCEPT !.entered[k] = 0, !.awaiting = @ \ {k}]

\* ------------------------------------------------------------------------
\* SceneManager
\* ------------------------------------------------------------------------

\* SceneManager::register_scene: HashMap::insert, replacing an earlier entry.
register_scene(m, key, kind) == [m EXCEPT !.scenes[key] = kind]

\* SceneManager::register_default
register_default(m, key, kind) ==
    LET r == register_scene(m, key, kind)
    IN IF Contains(r.stack, key)
       THEN r
       ELSE [r EXCEPT !.stack = Append(@, key), !.awaiting = @ \cup {key}]

\* SceneManager::start
start(m) ==
    IF m.stack # <<>>
    THEN LET initial == Head(m.stack)
         IN IF m.scenes[initial] # NotRegistered
            THEN on_enter(m, initial)
            ELSE m
    ELSE m

\* collect_active_scenes that breaks before taking the opaque scene.
RECURSIVE collect_from_exclusive(_, _, _)
collect_from_exclusive(m, i, active) ==
    IF i < 1
    THEN active
    ELSE LET key == m.stack[i]
         IN IF m.scenes[key] # NotRegistered /\ m.scenes[key] # "transparent"
            THEN active
            ELSE collect_from_exclusive(m, i - 1, InsertFront(active, key))

\* SceneManager::collect_active_scenes: the loop over stack.iter().rev(),
\* i the index still to visit, active the list built so far.
RECURSIVE collect_from(_, _, _)
collect_from(m, i, active) ==
    IF i < 1
    THEN active
    ELSE LET key == m.stack[i]
             act == InsertFront(active, key)
         IN IF m.scenes[key] # NotRegistered /\ m.scenes[key] # "transparent"
            THEN act
            ELSE collect_from(m, i - 1, act)

collect_active_scenes(m) == collect_from(m, Len(m.stack), <<>>)

\* SceneManager::update_scenes
RECURSIVE update_scenes(_, _)
update_scenes(m, scenes_to_update) ==
    IF scenes_to_update = <<>>
    THEN m
    ELSE LET key == Head(scenes_to_update)
             u == IF m.scenes[key] # NotRegistered THEN scene_update(m, key) ELSE m
         IN update_scenes(u, Tail(scenes_to_update))

\* SceneManager::update
update(m) ==
    IF m.stack = <<>>
    THEN m
    ELSE update_scenes(m, collect_active_scenes(m))

\* push_internal without the check that the key is already in the stack.
push_internal_dup(m, key) ==
    IF m.scenes[key] = NotRegistered
    THEN m
    ELSE on_enter([m EXCEPT !.stack = Append(@, key)], key)

\* push_internal without the check that the key is registered.
push_internal_unregistered(m, key) ==
    IF Contains(m.stack, key)
    THEN m
    ELSE LET p == [m EXCEPT !.stack = Append(@, key)]
         IN IF p.scenes[key] # NotRegistered THEN on_enter(p, key) ELSE p

\* push_internal that leaves on_enter to a later start().
push_internal_silent(m, key) ==
    IF Contains(m.stack, key)
    THEN m
    ELSE IF m.scenes[key] = NotRegistered
    THEN m
    ELSE [m EXCEPT !.stack = Append(@, key)]

\* SceneManager::push_internal
push_internal(m, key) ==
    IF Contains(m.stack, key)
    THEN m
    ELSE IF m.scenes[key] = NotRegistered
    THEN m
    ELSE LET p == [m EXCEPT !.stack = Append(@, key)]
         IN IF p.scenes[key] # NotRegistered THEN on_enter(p, key) ELSE p

\* remove_internal with Vec::swap_remove: the last key takes the freed slot.
remove_internal_swap(m, key) ==
    LET pos == Position(m.stack, key)
        n == Len(m.stack)
    IN IF pos # 0
       THEN LET s == m.stack
                r == [m EXCEPT !.stack = SubSeq([s EXCEPT ![pos] = s[n]], 1, n - 1)]
                x == IF r.scenes[key] # NotRegistered THEN on_exit(r, key) ELSE r
            IN LeftStack(x, key)
       ELSE m

\* SceneManager::remove_internal
remove_internal(m, key) ==
    LET pos == Position(m.stack, key)
    IN IF pos # 0
       THEN LET r == [m EXCEPT !.stack = RemoveAt(@, pos)]
                x == IF r.scenes[key] # NotRegistered THEN on_exit(r, key) ELSE r
            IN LeftStack(x, key)
       ELSE m

\* replace_internal that removes the old key and pushes the new one on top.
replace_internal_top(m, old_key, new_key) ==
    LET pos == Position(m.stack, old_key)
    IN IF pos = 0
       THEN m
       ELSE IF Contains(m.stack, new_key)
       THEN m
       ELSE IF m.scenes[new_key] = NotRegistered
       THEN m
       ELSE LET x == IF m.scenes[old_key] # NotRegistered
                     THEN on_exit(m, old_key)
                     ELSE m
                r == [LeftStack(x, old_key) EXCEPT
                         !.stack = Append(RemoveAt(@, pos), new_key)]
            IN IF r.scenes[new_key] # NotRegistered THEN on_enter(r, new_key) ELSE r

\* replace_internal without the check that the new key is already stacked.
replace_internal_unchecked(m, old_key, new_key) ==
    LET pos == Position(m.stack, old_key)
    IN IF pos = 0
       THEN m
       ELSE IF m.scenes[new_key] = NotRegistered
       THEN m
       ELSE LET x == IF m.scenes[old_key] # NotRegistered
                     THEN on_exit(m, old_key)
                     ELSE m
                r == [LeftStack(x, old_key) EXCEPT !.stack[pos] = new_key]
            IN IF r.scenes[new_key] # NotRegistered THEN on_enter(r, new_key) ELSE r

\* SceneManager::replace_internal
replace_internal(m, old_key, new_key) ==
    LET pos == Position(m.stack, old_key)
    IN IF pos = 0
       THEN m
       ELSE IF Contains(m.stack, new_key)
       THEN m
       ELSE IF m.scenes[new_key] = NotRegistered
       THEN m
       ELSE LET x == IF m.scenes[old_key] # NotRegistered
                     THEN on_exit(m, old_key)
                     ELSE m
                r == [LeftStack(x, old_key) EXCEPT !.stack[pos] = new_key]
            IN IF r.scenes[new_key] # NotRegistered THEN on_enter(r, new_key) ELSE r

\* clear_internal whose loop stops after the first scene of the stack.
RECURSIVE clear_from_first_only(_, _)
clear_from_first_only(m, i) ==
    IF i > Len(m.stack) \/ i > 1
    THEN m
    ELSE LET key == m.stack[i]
             x == IF m.scenes[key] # NotRegistered THEN on_exit(m, key) ELSE m
         IN clear_from_first_only(x, i + 1)

\* SceneManager::clear_internal: the loop over &self.stack from index i.
RECURSIVE clear_from(_, _)
clear_from(m, i) ==
    IF i > Len(m.stack)
    THEN m
    ELSE LET key == m.stack[i]
             x == IF m.scenes[key] # NotRegistered THEN on_exit(m, key) ELSE m
         IN clear_from(x, i + 1)

RECURSIVE LeftAll(_, _)
LeftAll(m, keys) ==
    IF keys = <<>> THEN m ELSE LeftAll(LeftStack(m, Head(keys)), Tail(keys))

clear_internal(m) ==
    [LeftAll(clear_from(m, 1), m.stack) EXCEPT !.stack = <<>>]

\* The match of SceneManager::process_transitions on one transition.
match_transition(m, t) ==
    CASE t[1] = "Push" -> push_internal(m, t[2])
      [] t[1] = "Remove" -> remove_internal(m, t[2])
      [] t[1] = "Replace" -> replace_internal(m, t[2], t[3])
      [] t[1] = "Clear" -> clear_internal(m)
      [] t[1] = "Empty" -> m

\* One iteration of the loop of process_transitions, with its record in steps.
apply_one(m, t) ==
    LET a == match_transition(m, t)
    IN [a EXCEPT !.steps = Append(@, [t |-> t,
                                       before |-> m.stack,
                                       after |-> a.stack,
                                       calls |-> SubSeq(a.calls, Len(m.calls) + 1,
                                                        Len(a.calls))])]

\* The loop of process_transitions taking the newest transition first.
RECURSIVE transitions_from_lifo(_, _, _)
transitions_from_lifo(m, ts, i) ==
    IF i > Len(ts)
    THEN m
    ELSE transitions_from_lifo(apply_one(m, ts[Len(ts) + 1 - i]), ts, i + 1)

\* The for loop of process_transitions over the slice ts, from index i.
RECURSIVE transitions_from(_, _, _)
transitions_from(m, ts, i) ==
    IF i > Len(ts)
    THEN m
    ELSE transitions_from(apply_one(m, ts[i]), ts, i + 1)

\* SceneManager::process_transitions, the manager's side; the caller clears
\* the bus queue with it.
process_transitions(m, q) == transitions_from(m, read(q), 1)

\* GlobalSystems::update with the transitions applied before the scene update.
systems_update_swapped(m, q) == update(process_transitions(m, q))

\* GlobalSystems::update, steps 3 and 4: scene update, then the transitions.
systems_update(m, q) == process_transitions(update(m), q)

\* ------------------------------------------------------------------------
\* EngineBuilder and Engine (src/src/engine.rs), spawn_core_thread
\* (src/src/core/mod.rs). A call returns [panicked, value].
\* ------------------------------------------------------------------------

\* `x > 0.0` on an f64: false for zero, for a negative number and for NaN.
gt_zero(x) == x.class = "inf" \/ (x.class = "finite" /\ x.sign = 1)

\* EngineBuilder::new
builder_new ==
    [input_system |-> FALSE, tps |-> Finite(1, 15, 2), channel_capacity |-> 128]

\* EngineBuilder::with_tps
with_tps(b, tps) ==
    IF gt_zero(tps)
    THEN [panicked |-> FALSE, value |-> [b EXCEPT !.tps = tps]]
    ELSE [panicked |-> TRUE, value |-> b]

\* EngineBuilder::with_channel_capacity
with_channel_capacity(b, capacity) ==
    IF capacity > 0
    THEN [panicked |-> FALSE, value |-> [b EXCEPT !.channel_capacity = capacity]]
    ELSE [panicked |-> TRUE, value |-> b]

\* EngineBuilder::build: expect on the input system.
build(b) == [panicked |-> ~b.input_system, value |-> b]

\* Duration::from_secs_f64(1.0 / tps) of a tps > 0.0 returns: the quotient
\* is below 2^64 seconds, that is, tps is above 2^-64 (1.0 / infinity is 0).
frame_duration_fits(tps) ==
    \/ tps.class = "inf"
    \/ tps.exp > -64
    \/ tps.exp = -64 /\ tps.num > 1
    \/ tps.exp < -64 /\ tps.num > 2 ^ (-64 - tps.exp)

\* spawn_core_thread without the assertion: a rate that is not above zero
\* gives a Duration all the same.
spawn_core_thread_unchecked(tps) ==
    [panicked |-> gt_zero(tps) /\ ~frame_duration_fits(tps),
     spawned |-> ~gt_zero(tps) \/ frame_duration_fits(tps)]

\* CoreSystemsOrchestrator::spawn_core_thread up to thread::spawn: the
\* assertion, then the Duration of a tick.
spawn_core_thread(tps) ==
    IF ~gt_zero(tps) THEN [panicked |-> TRUE, spawned |-> FALSE]
    ELSE IF ~frame_duration_fits(tps)
         THEN [panicked |-> TRUE, spawned |-> FALSE]
         ELSE [panicked |-> FALSE, spawned |-> TRUE]

\* ------------------------------------------------------------------------
\* InputBuffer (src/src/platform/input_buffer.rs)
\* ------------------------------------------------------------------------

\* PartialEq for InputEvent that leaves the modifiers out of the comparison.
eq_ignores_modifiers(a, b) ==
    /\ a.type = b.type
    /\ a.type \in {"KeyDown", "KeyUp", "MouseButtonDown", "MouseButtonUp"}
           => a.code = b.code

\* PartialEq for InputEvent: the same variant, and the same key or button
\* and modifiers where the variant has them; the coordinates of MouseMoved
\* are not compared.
eq(a, b) ==
    /\ a.type = b.type
    /\ a.type \in {"KeyDown", "KeyUp", "MouseButtonDown", "MouseButtonUp"}
           => a.code = b.code /\ a.modifiers = b.modifiers

\* HashSet::replace: the value takes the place of the element equal to it.
replace(set, value) == {x \in set : ~eq(x, value)} \cup {value}

\* InputBuffer::new
buffer_new == [discrete |-> <<>>, continuous |-> {}]

\* push_continuous with HashSet::insert in place of HashSet::replace: an
\* element equal to the event stays in the set.
push_continuous_insert(b, event) ==
    [b EXCEPT !.continuous =
        IF \E x \in @ : eq(x, event) THEN @ ELSE @ \cup {event}]

\* InputBuffer::push_continuous
push_continuous(b, event) == [b EXCEPT !.continuous = replace(@, event)]

\* push_discrete that drops an event equal to any buffered one.
push_discrete_unique(b, event) ==
    IF \E i \in DOMAIN b.discrete : eq(b.discrete[i], event)
    THEN b
    ELSE [b EXCEPT !.discrete = Append(@, event)]

\* InputBuffer::push_discrete
push_discrete(b, event) ==
    IF b.discrete # <<>> /\ eq(b.discrete[Len(b.discrete)], event)
    THEN b
    ELSE [b EXCEPT !.discrete = Append(@, event)]

\* InputBuffer::is_empty
is_empty(b) == b.discrete = <<>> /\ b.continuous = {}

\* The orders in which HashSet::drain may yield the elements of a set.
Orders(set) ==
    {s \in [1..Cardinality(set) -> set] :
        \A i, j \in DOMAIN s : i # j => s[i] # s[j]}

\* drain that hands the events out and leaves them in the buffer.
drain_keeps(b, order) ==
    IF is_empty(b)
    THEN [some |-> FALSE, discrete |-> <<>>, continuous |-> <<>>, buffer |-> b]
    ELSE [some |-> TRUE, discrete |-> b.discrete, continuous |-> order,
          buffer |-> b]

\* InputBuffer::drain, the HashSet yielding its elements in the given order.
drain(b, order) ==
    IF is_empty(b)
    THEN [some |-> FALSE, discrete |-> <<>>, continuous |-> <<>>, buffer |-> b]
    ELSE [some |-> TRUE, discrete |-> b.discrete, continuous |-> order,
          buffer |-> buffer_new]

\* ------------------------------------------------------------------------
\* ActionMapper (src/src/core/input/action_mapper.rs). A HashMap is the
\* function from its keys to their values; Option::None is "None".
\* ------------------------------------------------------------------------

\* ActionMapper::new
mapper_new ==
    [key_bindings |-> <<>>, mouse_bindings |-> <<>>,
     current_context |-> "Primary"]

\* ActionMapper::bind_key_with_mods, HashMap::insert
bind_key_with_mods(m, key, modifiers, action, context) ==
    LET at == <<key, modifiers, context>>
    IN [m EXCEPT !.key_bindings =
           [x \in DOMAIN @ \cup {at} |-> IF x = at THEN action ELSE @[x]]]

\* ActionMapper::bind_key
bind_key(m, key, action, context) ==
    bind_key_with_mods(m, key, NONE, action, context)

\* ActionMapper::bind_mouse, through bind_mouse_with_mods
bind_mouse(m, button, action, context) ==
    LET at == <<button, NONE, context>>
    IN [m EXCEPT !.mouse_bindings =
           [x \in DOMAIN @ \cup {at} |-> IF x = at THEN action ELSE @[x]]]

\* ActionMapper::unbind_key_with_mods, HashMap::remove
unbind_key_with_mods(m, key, modifiers, context) ==
    [m EXCEPT !.key_bindings =
        [x \in DOMAIN @ \ {<<key, modifiers, context>>} |-> @[x]]]

\* ActionMapper::unbind_key
unbind_key(m, key, context) == unbind_key_with_mods(m, key, NONE, context)

\* unbind_key_all_variants whose retain does not compare the context.
unbind_key_all_variants_every_context(m, key, context) ==
    [m EXCEPT !.key_bindings =
        [x \in {y \in DOMAIN @ : y[1] # key} |-> @[x]]]

\* ActionMapper::unbind_key_all_variants, HashMap::retain
unbind_key_all_variants(m, key, context) ==
    [m EXCEPT !.key_bindings =
        [x \in {y \in DOMAIN @ : ~(y[1] = key /\ y[3] = context)} |-> @[x]]]

\* ActionMapper::unbind_mouse, through unbind_mouse_with_mods
unbind_mouse(m, button, context) ==
    [m EXCEPT !.mouse_bindings =
        [x \in DOMAIN @ \ {<<button, NONE, context>>} |-> @[x]]]

\* set_context that carries the bindings of the context it leaves over to
\* the context it enters.
set_context_carries(m, context) ==
    [m EXCEPT !.current_context = context,
              !.key_bindings =
                  [x \in {<<y[1], y[2], IF y[3] = m.current_context
                                        THEN context ELSE y[3]>> :
                             y \in DOMAIN @} |->
                      IF <<x[1], x[2], m.current_context>> \in DOMAIN @
                      THEN @[<<x[1], x[2], m.current_context>>] ELSE @[x]]]

\* ActionMapper::set_context
set_context(m, context) == [m EXCEPT !.current_context = context]

\* map_key that takes a binding of the key under any modifiers.
map_key_any_modifiers(m, key, modifiers) ==
    LET hits == {x \in DOMAIN m.key_bindings :
                    x[1] = key /\ x[3] = m.current_context}
    IN IF hits = {} THEN "None"
       ELSE m.key_bindings[CHOOSE x \in hits : TRUE]

\* ActionMapper::map_key, HashMap::get
map_key(m, key, modifiers) ==
    LET binding_key == <<key, modifiers, m.current_context>>
    IN IF binding_key \in DOMAIN m.key_bindings
       THEN m.key_bindings[binding_key] ELSE "None"

\* ActionMapper::map_button, HashMap::get
map_button(m, btn, modifiers) ==
    LET binding_key == <<btn, modifiers, m.current_context>>
    IN IF binding_key \in DOMAIN m.mouse_bindings
       THEN m.mouse_bindings[binding_key] ELSE "None"

\* map_event that resolves a release as it resolves the press.
map_event_releases(m, event) ==
    CASE event.type \in {"KeyDown", "KeyUp"} ->
           map_key(m, event.code, event.modifiers)
      [] event.type \in {"MouseButtonDown", "MouseButtonUp"} ->
           map_button(m, event.code, event.modifiers)
      [] OTHER -> "None"

\* ActionMapper::map_event
map_event(m, event) ==
    CASE event.type = "KeyDown" -> map_key(m, event.code, event.modifiers)
      [] event.type = "MouseButtonDown" ->
           map_button(m, event.code, event.modifiers)
      [] OTHER -> "None"

\* ------------------------------------------------------------------------
\* StateTracker (src/src/core/input/state_tracker.rs)
\* ------------------------------------------------------------------------

\* StateTracker::new
tracker_new ==
    [keys_down |-> {}, mouse_buttons_down |-> {},
     mouse_position |-> <<0, 0>>, modifiers |-> NONE,
     keys_pressed_this_frame |-> {}, keys_released_this_frame |-> {},
     mouse_buttons_pressed_this_frame |-> {},
     mouse_buttons_released_this_frame |-> {},
     mouse_delta |-> <<0, 0>>, last_mouse_position |-> <<0, 0>>]

\* clear that also forgets the held keys and buttons.
tracker_clear_forgets_held(t) ==
    [t EXCEPT !.keys_pressed_this_frame = {},
              !.keys_released_this_frame = {},
              !.mouse_buttons_pressed_this_frame = {},
              !.mouse_buttons_released_this_frame = {},
              !.keys_down = {},
              !.mouse_buttons_down = {},
              !.last_mouse_position = t.mouse_position]

\* StateTracker::clear
tracker_clear(t) ==
    [t EXCEPT !.keys_pressed_this_frame = {},
              !.keys_released_this_frame = {},
              !.mouse_buttons_pressed_this_frame = {},
              !.mouse_buttons_released_this_frame = {},
              !.last_mouse_position = t.mouse_position]

\* finalize_frame with the operands of the subtraction swapped.
finalize_frame_swapped(t) ==
    [t EXCEPT !.mouse_delta =
        <<t.last_mouse_position[1] - t.mouse_position[1],
          t.last_mouse_position[2] - t.mouse_position[2]>>]

\* StateTracker::finalize_frame
finalize_frame(t) ==
    [t EXCEPT !.mouse_delta =
        <<t.mouse_position[1] - t.last_mouse_position[1],
          t.mouse_position[2] - t.last_mouse_position[2]>>]

\* The match of StateTracker::process_event. HashSet::insert returns true
\* iff the value was absent, HashSet::remove true iff it was present.
match_event(t, e) ==
    CASE e.type = "KeyDown" ->
           [t EXCEPT !.modifiers = e.modifiers,
                     !.keys_down = @ \cup {e.code},
                     !.keys_pressed_this_frame =
                         IF e.code \notin t.keys_down THEN @ \cup {e.code} ELSE @]
      [] e.type = "KeyUp" ->
           [t EXCEPT !.modifiers = e.modifiers,
                     !.keys_down = @ \ {e.code},
                     !.keys_released_this_frame =
                         IF e.code \in t.keys_down THEN @ \cup {e.code} ELSE @]
      [] e.type = "MouseButtonDown" ->
           [t EXCEPT !.modifiers = e.modifiers,
                     !.mouse_buttons_down = @ \cup {e.code},
                     !.mouse_buttons_pressed_this_frame =
                         IF e.code \notin t.mouse_buttons_down
                         THEN @ \cup {e.code} ELSE @]
      [] e.type = "MouseButtonUp" ->
           [t EXCEPT !.modifiers = e.modifiers,
                     !.mouse_buttons_down = @ \ {e.code},
                     !.mouse_buttons_released_this_frame =
                         IF e.code \in t.mouse_buttons_down
                         THEN @ \cup {e.code} ELSE @]
      [] e.type = "MouseMoved" -> [t EXCEPT !.mouse_position = e.pos]
      [] OTHER -> t

\* process_event that takes a released key out of the held keys without
\* recording the release.
process_event_silent_release(t, e) ==
    LET r == match_event(t, e)
    IN IF e.type = "KeyUp"
       THEN [r EXCEPT !.keys_released_this_frame = t.keys_released_this_frame]
       ELSE r

\* process_event that marks a key pressed on every KeyDown.
process_event_repeat_press(t, e) ==
    LET r == match_event(t, e)
    IN IF e.type = "KeyDown"
       THEN [r EXCEPT !.keys_pressed_this_frame = @ \cup {e.code}]
       ELSE r

\* process_event that records a release and leaves the key held.
process_event_release_keeps_held(t, e) ==
    LET r == match_event(t, e)
    IN IF e.type = "KeyUp" THEN [r EXCEPT !.keys_down = t.keys_down] ELSE r

\* process_event that takes the modifiers only of an event that changed the
\* held state.
process_event_mods_on_change(t, e) ==
    LET r == match_event(t, e)
    IN IF r.keys_down = t.keys_down
          /\ r.mouse_buttons_down = t.mouse_buttons_down
       THEN [r EXCEPT !.modifiers = t.modifiers]
       ELSE r

\* StateTracker::process_event
process_event(t, e) == match_event(t, e)

\* StateTracker::process_events
RECURSIVE process_events(_, _)
process_events(t, events) ==
    IF events = <<>> THEN t
    ELSE process_events(process_event(t, Head(events)), Tail(events))

\* ------------------------------------------------------------------------
\* Initial state and actions
\* ------------------------------------------------------------------------

\* SceneManager::new, MessageBus::new
Init ==
    /\ scenes = [k \in SceneKeys |-> NotRegistered]
    /\ stack = <<>>
    /\ queue = <<>>
    /\ phase = "init"
    /\ lastOp = "new"
    /\ calls = <<>>
    /\ steps = <<>>
    /\ arrived = <<>>
    /\ tickStack = <<>>
    /\ entered = [k \in SceneKeys |-> 0]
    /\ awaiting = {}
    /\ queues = [ty \in MsgTypes |-> NoQueue]
    /\ sinceClear = [ty \in MsgTypes |-> <<>>]
    /\ pushedEver = {}
    /\ busOp = [op |-> "new", ty |-> "none", result |-> <<>>,
                had |-> [u \in MsgTypes |-> 0]]
    /\ frame_input_events = <<>>
    /\ inputActions = <<>>
    /\ atUpdate = <<>>
    /\ chan = <<>>
    /\ connected = TRUE
    /\ sent = 0
    /\ platform = "running"
    /\ input_batches = <<>>
    /\ control = "none"
    /\ taken = 0
    /\ warned = FALSE
    /\ corePc = "collect"
    /\ processed = <<>>
    /\ blocked = <<>>
    /\ input_state = tracker_new
    /\ trackOp = "new"
    /\ rose = {}
    /\ fell = {}
    /\ atClear = <<0, 0>>
    /\ heldAtClear = {}
    /\ moved = <<>>
    /\ lastMods = NONE
    /\ buffer = buffer_new
    /\ bufOp = "new"
    /\ drained = [some |-> FALSE, discrete |-> <<>>, continuous |-> <<>>,
                  moves |-> <<>>]
    /\ lastMove = <<>>
    /\ mapper = mapper_new
    /\ mapOp = "new"
    /\ bound = <<>>
    /\ config = [stage |-> "builder", fields |-> builder_new,
                 call |-> "new", arg |-> NAN]

\* The manager part of the next state, after a method returned m.
Returned(m, op) ==
    /\ scenes' = m.scenes
    /\ stack' = m.stack
    /\ calls' = m.calls
    /\ steps' = m.steps
    /\ entered' = m.entered
    /\ awaiting' = m.awaiting
    /\ tickStack' = stack
    /\ lastOp' = op

\* The initialization callback registers a scene.
RegisterScene(key, kind) ==
    /\ phase = "init"
    /\ Returned(register_scene(Manager, key, kind), "register_scene")
    /\ UNCHANGED <<queue, phase, arrived>>
    /\ UNCHANGED nonSceneVars

\* The initialization callback registers a default scene.
RegisterDefault(key, kind) ==
    /\ phase = "init"
    /\ Returned(register_default(Manager, key, kind), "register_default")
    /\ UNCHANGED <<queue, phase, arrived>>
    /\ UNCHANGED nonSceneVars

\* start(), once, before the tick loop.
Start ==
    /\ phase = "init"
    /\ Returned(start(Manager), "start")
    /\ phase' = "running"
    /\ UNCHANGED <<queue, arrived>>
    /\ UNCHANGED nonSceneVars

\* A SceneTransition is pushed on the bus.
QueueTransition(t) ==
    /\ phase = "running"
    /\ Len(queue) < MaxQueue
    /\ queue' = push(queue, t)
    /\ arrived' = Append(arrived, t)
    /\ Returned(Manager, "push")
    /\ UNCHANGED phase
    /\ UNCHANGED nonSceneVars

\* One tick of GlobalSystems::update.
Tick ==
    /\ phase = "running"
    /\ Returned(systems_update(Manager, queue), "update")
    /\ queue' = clear(queue)
    /\ arrived' = <<>>
    /\ UNCHANGED phase
    /\ UNCHANGED nonSceneVars

Next ==
    \/ \E key \in SceneKeys : \E kind \in SceneKindsOf(key) : RegisterScene(key, kind)
    \/ \E key \in SceneKeys : \E kind \in SceneKindsOf(key) : RegisterDefault(key, kind)
    \/ Start
    \/ \E t \in SceneTransition : QueueTransition(t)
    \/ Tick

Spec == Init /\ [][Next]_vars

\* ------------------------------------------------------------------------
\* The MessageBus on its own: any caller, any order of calls
\* ------------------------------------------------------------------------

\* The record of a MessageBus call and of what it returned.
Called(op, ty, result) ==
    busOp' = [op |-> op, ty |-> ty, result |-> result,
              had |-> [u \in MsgTypes |-> count(queues, u)]]

\* bus.push(msg) with msg of type ty.
BusPush(ty, msg) ==
    /\ count(queues, ty) < MaxMsgs
    /\ queues' = bus_push(queues, ty, msg)
    /\ sinceClear' = [sinceClear EXCEPT ![ty] = Append(@, msg)]
    /\ pushedEver' = pushedEver \cup {ty}
    /\ Called("push", ty, <<msg>>)
    /\ UNCHANGED nonBusVars

\* bus.read::<ty>(), through &self.
BusRead(ty) ==
    /\ Called("read", ty, bus_read(queues, ty))
    /\ UNCHANGED <<queues, sinceClear, pushedEver>>
    /\ UNCHANGED nonBusVars

\* bus.count::<ty>(), through &self.
BusCount(ty) ==
    /\ Called("count", ty, count(queues, ty))
    /\ UNCHANGED <<queues, sinceClear, pushedEver>>
    /\ UNCHANGED nonBusVars

\* bus.has_messages::<ty>(), through &self.
BusHasMessages(ty) ==
    /\ Called("has_messages", ty, has_messages(queues, ty))
    /\ UNCHANGED <<queues, sinceClear, pushedEver>>
    /\ UNCHANGED nonBusVars

\* bus.clear::<ty>()
BusClear(ty) ==
    /\ queues' = bus_clear(queues, ty)
    /\ sinceClear' = [sinceClear EXCEPT ![ty] = <<>>]
    /\ Called("clear", ty, <<>>)
    /\ UNCHANGED pushedEver
    /\ UNCHANGED nonBusVars

\* bus.clear_all()
BusClearAll ==
    /\ queues' = clear_all(queues)
    /\ sinceClear' = [ty \in MsgTypes |-> <<>>]
    /\ Called("clear_all", "Action", <<>>)
    /\ UNCHANGED pushedEver
    /\ UNCHANGED nonBusVars

BusNext ==
    \/ \E ty \in MsgTypes : \E msg \in Messages(ty) : BusPush(ty, msg)
    \/ \E ty \in MsgTypes : BusRead(ty)
    \/ \E ty \in MsgTypes : BusCount(ty)
    \/ \E ty \in MsgTypes : BusHasMessages(ty)
    \/ \E ty \in MsgTypes : BusClear(ty)
    \/ BusClearAll

BusSpec == Init /\ [][BusNext]_vars

\* ------------------------------------------------------------------------
\* GlobalSystems::update on the whole GlobalContext
\* ------------------------------------------------------------------------

\* A pressed key is handed to the next tick in frame_input_events.
FeedInput(k) ==
    /\ phase = "running"
    /\ Len(frame_input_events) < MaxEvents
    /\ frame_input_events' = Append(frame_input_events, k)
    /\ Returned(Manager, "feed")
    /\ UNCHANGED <<inputActions, atUpdate>>
    /\ UNCHANGED <<queue, phase, arrived, busVars, chanVars, collectorVars,
                   coreVars, deviceVars>>

\* One call of GlobalSystems::update, all four steps.
FrameTick ==
    /\ phase = "running"
    /\ LET acts == process_frame(frame_input_events, <<>>)
           published == publish_actions(queues, acts)
           transitions == bus_read(published, "SceneTransition")
       IN /\ inputActions' = acts
          /\ frame_input_events' = <<>>
          /\ atUpdate' = bus_read(published, "Action")
          /\ Returned(systems_update(Manager, transitions), "update")
          /\ queues' = bus_clear(published, "SceneTransition")
          /\ sinceClear' = [sinceClear EXCEPT !["Action"] = acts,
                                              !["SceneTransition"] = <<>>]
          /\ pushedEver' = pushedEver \cup (IF acts = <<>> THEN {} ELSE {"Action"})
          /\ Called("tick", "Action", bus_read(queues, "Action"))
    /\ UNCHANGED <<queue, phase, arrived, chanVars, collectorVars, coreVars,
                   deviceVars>>

FrameNext ==
    \/ \E kind \in SceneKindsOf("A") : RegisterDefault("A", kind)
    \/ Start
    \/ \E k \in Keys : FeedInput(k)
    \/ \E ty \in MsgTypes \ {"Action"} : \E msg \in Messages(ty) : BusPush(ty, msg)
    \/ FrameTick

FrameSpec == Init /\ [][FrameNext]_vars

\* ------------------------------------------------------------------------
\* The platform's end of the channel
\* ------------------------------------------------------------------------

\* Sender::send of an Inputs message.
SendInputs ==
    /\ connected
    /\ platform = "running"
    /\ sent < MaxSent
    /\ chan' = Append(chan, Inputs(sent + 1))
    /\ sent' = sent + 1
    /\ UNCHANGED <<connected, platform>>

\* k sends of an Inputs message in a row.
SendBurst(k) ==
    /\ connected
    /\ platform = "running"
    /\ sent + k <= MaxSent
    /\ chan' = chan \o InputsRun(sent, k)
    /\ sent' = sent + k
    /\ UNCHANGED <<connected, platform>>

\* Sender::send of WindowClosed, after which the event loop exits.
SendWindowClosed ==
    /\ connected
    /\ platform = "running"
    /\ sent < MaxSent
    /\ chan' = Append(chan, WindowClosed(sent + 1))
    /\ sent' = sent + 1
    /\ platform' = "exited"
    /\ UNCHANGED connected

\* The last Sender is dropped.
DropSender ==
    /\ connected
    /\ connected' = FALSE
    /\ UNCHANGED <<chan, sent, platform>>

\* ------------------------------------------------------------------------
\* EventCollector::collect_frame, called until it returns Exit
\* ------------------------------------------------------------------------

CollectFrame ==
    /\ control # "Exit"
    /\ LET c == collect_frame(chan, connected)
       IN /\ chan' = c.chan
          /\ input_batches' = c.batches
          /\ control' = c.control
          /\ taken' = taken + c.dequeued
          /\ warned' = (c.drained >= MAX_EVENTS_PER_FRAME)
    /\ UNCHANGED <<connected, sent, platform>>
    /\ UNCHANGED nonChanVars

CollectorNext ==
    \/ SendInputs /\ UNCHANGED <<collectorVars, nonChanVars>>
    \/ SendWindowClosed /\ UNCHANGED <<collectorVars, nonChanVars>>
    \/ DropSender /\ UNCHANGED <<collectorVars, nonChanVars>>
    \/ CollectFrame

CollectorSpec == Init /\ [][CollectorNext]_vars

\* ------------------------------------------------------------------------
\* The thread of CoreSystemsOrchestrator::spawn_core_thread
\* ------------------------------------------------------------------------

\* Step 1 of a tick: collect_platform_events, then break on Exit.
CoreCollect ==
    /\ corePc = "collect"
    /\ LET c == collect_platform_events(chan, connected)
       IN /\ chan' = c.chan
          /\ input_batches' = c.batches
          /\ control' = c.control
          /\ taken' = taken + c.dequeued
          /\ warned' = (c.drained >= CORE_MAX_EVENTS_PER_FRAME)
          /\ corePc' = after_collect(c.control)
    /\ UNCHANGED <<connected, sent, platform, processed>>
    /\ UNCHANGED gameVars

\* Steps 2 and 3 of a tick: input_system.process_frame, then the pacing sleep.
CoreUpdate ==
    /\ corePc = "update"
    /\ processed' = input_batches
    /\ corePc' = "collect"
    /\ UNCHANGED <<chanVars, collectorVars, gameVars>>

CoreNext ==
    \/ \E k \in Bursts : SendBurst(k) /\ UNCHANGED <<collectorVars, nonChanVars>>
    \/ SendWindowClosed /\ UNCHANGED <<collectorVars, nonChanVars>>
    \/ DropSender /\ UNCHANGED <<collectorVars, nonChanVars>>
    \/ CoreCollect
    \/ CoreUpdate

CoreSpec == Init /\ [][CoreNext]_vars

\* The logic thread is scheduled again and again: recv_timeout returns after
\* frame_duration at the latest, and the pacing sleep ends.
CoreLiveSpec ==
    Init /\ [][CoreNext]_vars /\ WF_vars(CoreCollect) /\ WF_vars(CoreUpdate)

\* ------------------------------------------------------------------------
\* Engine::run: the platform thread and the logic thread on the two ends of
\* bounded(channel_capacity)
\* ------------------------------------------------------------------------

\* Sender::send on the bounded channel: Err once the Receiver is dropped,
\* the message is queued while there is room, and the call does not return
\* while the channel is full.
send(ch, msg, receiver_alive) ==
    IF ~receiver_alive
    THEN [chan |-> ch, result |-> "Err", blocked |-> <<>>]
    ELSE IF Len(ch) < channel_capacity
         THEN [chan |-> Append(ch, msg), result |-> "Ok", blocked |-> <<>>]
         ELSE [chan |-> ch, result |-> "waiting", blocked |-> <<msg>>]

\* The Receiver lives in the closure of the logic thread.
ReceiverAlive == corePc # "done"

\* Platform::flush_input_buffer as the n-th send of the platform: drain, and
\* one send of an Inputs message if drain returned Some. sends is the list
\* of the messages handed to Sender::send.
flush_input_buffer(b, order, ch, n, receiver_alive) ==
    LET d == drain(b, order)
        msg == [kind |-> "Inputs", id |-> n, discrete |-> d.discrete,
                continuous |-> d.continuous]
        s == send(ch, msg, receiver_alive)
    IN IF d.some
       THEN [buffer |-> d.buffer, drained |-> d, sends |-> <<msg>>,
             chan |-> s.chan, blocked |-> s.blocked]
       ELSE [buffer |-> d.buffer, drained |-> d, sends |-> <<>>,
             chan |-> ch, blocked |-> <<>>]

\* WindowEvent::RedrawRequested with a non-empty buffer: flush_input_buffer
\* sends one Inputs message.
PlatformFlush ==
    /\ platform = "running"
    /\ blocked = <<>>
    /\ sent < MaxSent
    /\ LET r == send(chan, Inputs(sent + 1), ReceiverAlive)
       IN /\ chan' = r.chan
          /\ blocked' = r.blocked
    /\ sent' = sent + 1
    /\ UNCHANGED <<connected, platform>>
    /\ UNCHANGED <<sceneVars, busVars, frameVars, collectorVars, coreVars,
                   trackerVars, bufferVars, mapperVars, configVars>>

\* WindowEvent::CloseRequested: send WindowClosed, then event_loop.exit().
PlatformClose ==
    /\ platform = "running"
    /\ blocked = <<>>
    /\ sent < MaxSent
    /\ LET r == send(chan, WindowClosed(sent + 1), ReceiverAlive)
       IN /\ chan' = r.chan
          /\ blocked' = r.blocked
          /\ platform' = IF r.blocked = <<>> THEN "exited" ELSE "running"
    /\ sent' = sent + 1
    /\ UNCHANGED connected
    /\ UNCHANGED <<sceneVars, busVars, frameVars, collectorVars, coreVars,
                   trackerVars, bufferVars, mapperVars, configVars>>

\* A waiting send returns: the logic thread made room, or dropped the
\* Receiver. The handler that called it then runs to its end.
SendReturns ==
    /\ blocked # <<>>
    /\ ~ReceiverAlive \/ Len(chan) < channel_capacity
    /\ chan' = send(chan, blocked[1], ReceiverAlive).chan
    /\ blocked' = <<>>
    /\ platform' = IF blocked[1].kind = "WindowClosed" THEN "exited" ELSE platform
    /\ UNCHANGED <<connected, sent>>
    /\ UNCHANGED <<sceneVars, busVars, frameVars, collectorVars, coreVars,
                   trackerVars, bufferVars, mapperVars, configVars>>

EngineNext ==
    \/ PlatformFlush
    \/ PlatformClose
    \/ SendReturns
    \/ CoreCollect
    \/ CoreUpdate

EngineSpec == Init /\ [][EngineNext]_vars

\* ------------------------------------------------------------------------
\* The StateTracker through its ticks: clear, any number of process_events,
\* finalize_frame
\* ------------------------------------------------------------------------

\* The held keys and buttons of a tracker.
Held(t) == t.keys_down \cup t.mouse_buttons_down

\* The keys and buttons a held set gained (up = TRUE) or lost (up = FALSE)
\* at some event of the batch.
RECURSIVE Crossed(_, _, _)
Crossed(t, events, up) ==
    IF events = <<>> THEN {}
    ELSE LET u == process_event(t, Head(events))
         IN (IF up THEN Held(u) \ Held(t) ELSE Held(t) \ Held(u))
            \cup Crossed(u, Tail(events), up)

\* The pos (as <<pos>>) or the modifiers of the last event of the batch whose
\* type is one of types; old if the batch has none.
LastOf(events, types, old, field) ==
    LET hits == {i \in DOMAIN events : events[i].type \in types}
    IN IF hits = {} THEN old
       ELSE LET i == CHOOSE j \in hits : \A k \in hits : k <= j
            IN IF field = "pos" THEN <<events[i].pos>> ELSE events[i].modifiers

\* Everything outside the tracker stays as it is.
TrackerFrame ==
    UNCHANGED <<sceneVars, busVars, frameVars, chanVars, collectorVars,
                coreVars, bridgeVars, bufferVars, mapperVars, configVars>>

\* Tick start: StateTracker::clear.
TrackerClear ==
    /\ input_state' = tracker_clear(input_state)
    /\ trackOp' = "clear"
    /\ rose' = {}
    /\ fell' = {}
    /\ atClear' = input_state.mouse_position
    /\ heldAtClear' = Held(input_state)
    /\ moved' = <<>>
    /\ UNCHANGED lastMods
    /\ TrackerFrame

\* StateTracker::process_events on one batch of the tick.
TrackerProcess(events) ==
    /\ trackOp \in {"clear", "process_events"}
    /\ input_state' = process_events(input_state, events)
    /\ trackOp' = "process_events"
    /\ rose' = rose \cup Crossed(input_state, events, TRUE)
    /\ fell' = fell \cup Crossed(input_state, events, FALSE)
    /\ moved' = LastOf(events, {"MouseMoved"}, moved, "pos")
    /\ lastMods' = LastOf(events, {"KeyDown", "KeyUp", "MouseButtonDown",
                                   "MouseButtonUp"}, lastMods, "modifiers")
    /\ UNCHANGED <<atClear, heldAtClear>>
    /\ TrackerFrame

\* Tick end: StateTracker::finalize_frame.
TrackerFinalize ==
    /\ trackOp \in {"clear", "process_events"}
    /\ input_state' = finalize_frame(input_state)
    /\ trackOp' = "finalize_frame"
    /\ UNCHANGED <<rose, fell, atClear, heldAtClear, moved, lastMods>>
    /\ TrackerFrame

TrackerNext ==
    \/ TrackerClear
    \/ \E events \in TrackerBatches : TrackerProcess(events)
    \/ TrackerFinalize

TrackerSpec == Init /\ [][TrackerNext]_vars

\* ------------------------------------------------------------------------
\* The InputBuffer of the platform: window events push, RedrawRequested
\* drains
\* ------------------------------------------------------------------------

\* Everything outside the buffer stays as it is.
BufferFrame ==
    UNCHANGED <<sceneVars, busVars, frameVars, chanVars, collectorVars,
                coreVars, bridgeVars, trackerVars, mapperVars, configVars>>

\* WindowEvent::CursorMoved: push_continuous of a MouseMoved.
PushContinuous(pos) ==
    /\ buffer' = push_continuous(buffer, Event("MouseMoved", "none", NONE, pos))
    /\ bufOp' = "push_continuous"
    /\ lastMove' = IF lastMove = <<>> THEN <<pos, pos>> ELSE <<lastMove[1], pos>>
    /\ UNCHANGED drained
    /\ BufferFrame

\* WindowEvent::KeyboardInput or MouseInput: push_discrete.
PushDiscrete(event) ==
    /\ Len(buffer.discrete) < MaxBuffered
    /\ buffer' = push_discrete(buffer, event)
    /\ bufOp' = "push_discrete"
    /\ UNCHANGED <<drained, lastMove>>
    /\ BufferFrame

\* WindowEvent::RedrawRequested: flush_input_buffer calls drain.
Drain ==
    /\ \E order \in Orders(buffer.continuous) :
          LET r == drain(buffer, order)
          IN /\ buffer' = r.buffer
             /\ drained' = [some |-> r.some, discrete |-> r.discrete,
                            continuous |-> r.continuous, moves |-> lastMove]
    /\ bufOp' = "drain"
    /\ lastMove' = <<>>
    /\ BufferFrame

BufferNext ==
    \/ \E pos \in Positions : PushContinuous(pos)
    \/ \E event \in DiscreteEvents : PushDiscrete(event)
    \/ Drain

BufferSpec == Init /\ [][BufferNext]_vars

\* ------------------------------------------------------------------------
\* The platform's window events on the buffer and the channel, the logic
\* thread taking nothing off the channel: it sleeps, or it has exited
\* ------------------------------------------------------------------------

\* WindowEvent::RedrawRequested: flush_input_buffer. The platform makes up
\* to channel_capacity + 1 sends.
Flush ==
    /\ platform = "running"
    /\ blocked = <<>>
    /\ sent <= channel_capacity
    /\ \E order \in Orders(buffer.continuous) :
          LET r == flush_input_buffer(buffer, order, chan, sent + 1,
                                      ReceiverAlive)
          IN /\ buffer' = r.buffer
             /\ drained' = [some |-> r.drained.some,
                            discrete |-> r.drained.discrete,
                            continuous |-> r.drained.continuous,
                            moves |-> lastMove]
             /\ chan' = r.chan
             /\ blocked' = r.blocked
             /\ sent' = sent + Len(r.sends)
    /\ bufOp' = "flush"
    /\ lastMove' = <<>>
    /\ UNCHANGED <<connected, platform>>
    /\ UNCHANGED <<sceneVars, busVars, frameVars, collectorVars, coreVars,
                   trackerVars, mapperVars, configVars>>

\* The logic thread exits and drops the Receiver.
ReceiverDropped ==
    /\ corePc = "collect"
    /\ corePc' = "done"
    /\ UNCHANGED <<processed, chanVars, collectorVars, gameVars>>

FlushNext ==
    \/ blocked = <<>> /\ \E pos \in Positions : PushContinuous(pos)
    \/ blocked = <<>> /\ \E event \in FlushEvents : PushDiscrete(event)
    \/ Flush
    \/ SendReturns
    \/ ReceiverDropped

FlushSpec == Init /\ [][FlushNext]_vars

\* Engine::run with a logic thread that may also end in a panic of
\* process_frame, which drops the Receiver as an exit does.
EngineLiveNext ==
    \/ EngineNext
    \/ ReceiverDropped

\* The logic thread is scheduled again and again (recv_timeout returns after
\* frame_duration at the latest, the pacing sleep ends), and the channel
\* wakes a waiting sender once there is room or the Receiver is gone.
EngineLiveSpec ==
    /\ Init /\ [][EngineLiveNext]_vars
    /\ WF_vars(CoreCollect) /\ WF_vars(CoreUpdate) /\ WF_vars(SendReturns)

\* ------------------------------------------------------------------------
\* The ActionMapper under the host's bind, unbind and set_context calls
\* ------------------------------------------------------------------------

\* An ActionMapper call returned m; everything outside the mapper stays as
\* it is.
Mapped(m, op) ==
    /\ mapper' = m
    /\ mapOp' = op
    /\ UNCHANGED <<sceneVars, busVars, frameVars, chanVars, collectorVars,
                   coreVars, bridgeVars, trackerVars, bufferVars,
                   configVars>>

\* bind_key for a binding without modifiers, bind_key_with_mods otherwise.
BindKey(key, modifiers, action, context) ==
    /\ IF modifiers = NONE
       THEN Mapped(bind_key(mapper, key, action, context), "bind_key")
       ELSE Mapped(bind_key_with_mods(mapper, key, modifiers, action, context),
                   "bind_key_with_mods")
    /\ bound' = [x \in DOMAIN bound \cup {<<key, modifiers, context>>} |->
                    IF x = <<key, modifiers, context>> THEN action ELSE bound[x]]

BindMouse(button, action, context) ==
    /\ Mapped(bind_mouse(mapper, button, action, context), "bind_mouse")
    /\ bound' = [x \in DOMAIN bound \cup {<<button, NONE, context>>} |->
                    IF x = <<button, NONE, context>> THEN action ELSE bound[x]]

\* unbind_key for the binding without modifiers, unbind_key_with_mods
\* otherwise.
UnbindKey(key, modifiers, context) ==
    /\ IF modifiers = NONE
       THEN Mapped(unbind_key(mapper, key, context), "unbind_key")
       ELSE Mapped(unbind_key_with_mods(mapper, key, modifiers, context),
                   "unbind_key_with_mods")
    /\ bound' = [x \in DOMAIN bound \ {<<key, modifiers, context>>} |-> bound[x]]

UnbindKeyAllVariants(key, context) ==
    /\ Mapped(unbind_key_all_variants(mapper, key, context),
              "unbind_key_all_variants")
    /\ bound' = [x \in {y \in DOMAIN bound : y[1] # key \/ y[3] # context} |->
                    bound[x]]

UnbindMouse(button, context) ==
    /\ Mapped(unbind_mouse(mapper, button, context), "unbind_mouse")
    /\ bound' = [x \in DOMAIN bound \ {<<button, NONE, context>>} |-> bound[x]]

SetContext(context) ==
    /\ Mapped(set_context(mapper, context), "set_context")
    /\ UNCHANGED bound

MapperNext ==
    \/ \E b \in KeyBinds, c \in InputContexts : BindKey(b[1], b[2], b[3], c)
    \/ \E c \in InputContexts : BindMouse("Left", "Fire", c)
    \/ \E b \in KeyBinds, c \in InputContexts : UnbindKey(b[1], b[2], c)
    \/ \E k \in {"Space", "KeyF"}, c \in InputContexts :
          UnbindKeyAllVariants(k, c)
    \/ \E c \in InputContexts : UnbindMouse("Left", c)
    \/ \E c \in InputContexts : SetContext(c)

MapperSpec == Init /\ [][MapperNext]_vars

\* ------------------------------------------------------------------------
\* Configuration: the builder calls, build, run, and the first ticks of the
\* logic thread
\* ------------------------------------------------------------------------

\* A configuration call returned r: a panic ends the program, otherwise the
\* engine is at the stage next with the fields of r. Nothing else changes.
Configured(call, arg, r, next) ==
    /\ config' = [stage |-> IF r.panicked THEN "panicked" ELSE next,
                  fields |-> r.value, call |-> call, arg |-> arg]
    /\ UNCHANGED <<sceneVars, busVars, frameVars, chanVars, collectorVars,
                   coreVars, bridgeVars, trackerVars, bufferVars, mapperVars>>

WithInputSystem ==
    /\ config.stage = "builder"
    /\ Configured("with_input_system", NAN,
                  [panicked |-> FALSE,
                   value |-> [config.fields EXCEPT !.input_system = TRUE]],
                  "builder")

WithTps(tps) ==
    /\ config.stage = "builder"
    /\ Configured("with_tps", tps, with_tps(config.fields, tps), "builder")

WithChannelCapacity(capacity) ==
    /\ config.stage = "builder"
    /\ Configured("with_channel_capacity",
                  Finite(IF capacity = 0 THEN 0 ELSE 1, capacity, 0),
                  with_channel_capacity(config.fields, capacity), "builder")

Build ==
    /\ config.stage = "builder"
    /\ Configured("build", NAN, build(config.fields), "engine")

\* Engine::run up to platform.run(): the channel, then spawn_core_thread
\* with the engine's rate; the logic thread is spawned unless that panics.
Run ==
    /\ config.stage = "engine"
    /\ Configured("run", config.fields.tps,
                  [panicked |-> spawn_core_thread(config.fields.tps).panicked,
                   value |-> config.fields], "spawned")

\* A host that spawns the logic thread itself, as the tests of core/mod.rs
\* do, with a rate of its choice.
SpawnCoreThread(tps) ==
    /\ config.stage = "builder"
    /\ config.call = "new"
    /\ Configured("spawn_core_thread", tps,
                  [panicked |-> spawn_core_thread(tps).panicked,
                   value |-> [config.fields EXCEPT !.tps = tps]], "spawned")

\* The ticks of the logic thread run in the closure given to thread::spawn.
ConfigNext ==
    \/ WithInputSystem
    \/ \E tps \in TpsValues : WithTps(tps)
    \/ \E capacity \in Capacities : WithChannelCapacity(capacity)
    \/ Build
    \/ Run
    \/ \E tps \in TpsValues : SpawnCoreThread(tps)
    \/ config.stage = "spawned" /\ CoreCollect
    \/ config.stage = "spawned" /\ CoreUpdate

ConfigSpec == Init /\ [][ConfigNext]_vars

\* ------------------------------------------------------------------------
\* Properties
\* ------------------------------------------------------------------------

TypeOK ==
    /\ scenes \in [SceneKeys -> SceneKinds \cup {NotRegistered}]
    /\ Range(stack) \subseteq SceneKeys
    /\ Len(queue) <= MaxQueue
    /\ phase \in {"init", "running"}

\* No element occurs twice in the sequence.
NoDuplicates(s) == \A i, j \in DOMAIN s : i # j => s[i] # s[j]

\* The calls of one hook on one key in a call list.
CallsOf(cs, hook, k) == SelectSeq(cs, LAMBDA c : c[1] = hook /\ c[2] = k)

\* The on_enter and on_exit calls of a call list, in order.
LifecycleCalls(cs) == SelectSeq(cs, LAMBDA c : c[1] # "update")

\* The keys updated by a call list, in order.
UpdatedKeys(cs) ==
    LET us == SelectSeq(cs, LAMBDA c : c[1] = "update")
    IN [i \in DOMAIN us |-> us[i][2]]

Registered(k) == scenes[k] # NotRegistered

\* --- C1 ------------------------------------------------------------------
\* C1: in every reachable state, and after every single transition applied
\* by process_transitions, no scene key occurs more than once in the stack.
C1_StackUnique ==
    /\ NoDuplicates(stack)
    /\ \A i \in DOMAIN steps : NoDuplicates(steps[i].after)

\* A tick that applied Replace(k, k) and a repeated Push on a full stack.
C1_Witness ==
    /\ lastOp = "update"
    /\ Len(stack) = 2
    /\ \E i \in DOMAIN steps :
          /\ steps[i].t[1] = "Replace"
          /\ steps[i].t[2] = steps[i].t[3]
          /\ Contains(steps[i].before, steps[i].t[2])
    /\ \E i \in DOMAIN steps :
          /\ steps[i].t[1] = "Push"
          /\ Contains(steps[i].before, steps[i].t[2])

\* --- C2 ------------------------------------------------------------------
\* C2: a Push(k) applied while k is already in the stack, or while k is not
\* registered, leaves the stack as it was and calls no on_enter or on_exit.
C2_InvalidPushNoOp ==
    \A i \in DOMAIN steps :
        LET st == steps[i]
        IN (st.t[1] = "Push"
              /\ (Contains(st.before, st.t[2]) \/ ~Registered(st.t[2])))
           => (st.after = st.before /\ st.calls = <<>>)

\* One tick applied a Push of a stacked key and a Push of an unregistered key.
C2_Witness ==
    /\ \E i \in DOMAIN steps :
          /\ steps[i].t[1] = "Push"
          /\ Contains(steps[i].before, steps[i].t[2])
    /\ \E i \in DOMAIN steps :
          /\ steps[i].t[1] = "Push"
          /\ ~Registered(steps[i].t[2])
          /\ steps[i].before # <<>>

\* --- C3 ------------------------------------------------------------------
\* C3: a Push(k) applied while k is registered and not in the stack puts k
\* on top and calls on_enter(k) exactly once, with k already on the stack;
\* and whenever update() then reaches a key that is in the stack without
\* having been seeded by register_default, on_enter has been called on it
\* exactly once since it joined the stack.
C3_PushStep(st) ==
    (st.t[1] = "Push" /\ Registered(st.t[2]) /\ ~Contains(st.before, st.t[2]))
    => /\ st.after = Append(st.before, st.t[2])
       /\ st.calls = << <<"on_enter", st.t[2], st.after>> >>

C3_PushEntersBeforeUpdate ==
    [][ /\ \A i \in DOMAIN steps' : C3_PushStep(steps'[i])
        /\ \A k \in SceneKeys :
              (lastOp' = "update"
                 /\ CallsOf(calls', "update", k) # <<>>
                 /\ k \notin awaiting)
              => entered[k] = 1
        /\ \A k \in Range(stack') \ awaiting' : entered'[k] = 1 ]_vars

\* A key pushed by an earlier tick is updated by the latest one.
C3_Witness ==
    /\ lastOp = "update"
    /\ \E k \in SceneKeys :
          /\ CallsOf(calls, "update", k) # <<>>
          /\ k \notin awaiting
          /\ entered[k] = 1
          /\ Len(tickStack) >= 2
          /\ tickStack[Len(tickStack)] = k
    /\ \E i \in DOMAIN steps :
          /\ steps[i].t[1] = "Push"
          /\ steps[i].after # steps[i].before

\* --- C4 ------------------------------------------------------------------
\* C4: when start() has returned, on_enter has been called exactly once on
\* every scene that register_default placed in the stack.
C4_StartEntersEverySeed ==
    lastOp = "start"
    => \A k \in Range(stack) : Len(CallsOf(calls, "on_enter", k)) = 1


\* --- C5 ------------------------------------------------------------------
\* A manager applying the transitions ts one at a time, oldest first, each
\* against the stack the previous one left.
RECURSIVE OneAtATime(_, _)
OneAtATime(m, ts) ==
    IF ts = <<>> THEN m ELSE OneAtATime(match_transition(m, Head(ts)), Tail(ts))

\* The manager as a tick finds it once the scene update is over.
AtTransitions(st) == [Manager EXCEPT !.stack = st]

\* C5: a tick applies the transitions in the order they were pushed: the i-th
\* one applied is the i-th one pushed, each starts from the stack the one
\* before it left, and the final stack and the on_enter/on_exit calls are
\* those of applying them one at a time in that order.
C5_FifoOrder ==
    [][ lastOp' = "update"
        => LET ref == OneAtATime(AtTransitions(stack), arrived)
           IN /\ Len(steps') = Len(arrived)
              /\ \A i \in DOMAIN steps' :
                    /\ steps'[i].t = arrived[i]
                    /\ steps'[i].before = IF i = 1 THEN stack ELSE steps'[i - 1].after
              /\ stack' = ref.stack
              /\ LifecycleCalls(calls') = ref.calls ]_vars

\* A tick applied two transitions whose reverse order gives another stack.
C5_Witness ==
    /\ lastOp = "update"
    /\ Len(steps) = 2
    /\ steps[1].t = <<"Push", "A">>
    /\ steps[2].t = <<"Remove", "A">>
    /\ steps[1].after # steps[1].before
    /\ OneAtATime(AtTransitions(tickStack), <<steps[2].t, steps[1].t>>).stack # stack

\* --- C6 ------------------------------------------------------------------
\* C6: the scene update of a tick sees the stack the tick began with, changes
\* neither the stack nor the registered scenes, and is over before the first
\* on_enter or on_exit of the tick; in the tick loop the stack changes only
\* through a transition that process_transitions applies.
C6_NoMidUpdateTransition ==
    [][ /\ lastOp' = "update"
           => /\ \A i \in DOMAIN calls' :
                    calls'[i][1] = "update"
                    => /\ calls'[i][3] = stack
                       /\ \A j \in 1..(i - 1) : calls'[j][1] = "update"
              /\ update(Manager).stack = stack
              /\ update(Manager).scenes = scenes
              /\ scenes' = scenes
        /\ (phase = "running" /\ stack' # stack)
           => /\ lastOp' = "update"
              /\ \E i \in DOMAIN steps' : steps'[i].after # steps'[i].before ]_vars

\* A tick updated scenes while transitions were queued that changed the stack.
C6_Witness ==
    /\ lastOp = "update"
    /\ UpdatedKeys(calls) # <<>>
    /\ Len(steps) = MaxQueue
    /\ stack # tickStack
    /\ LifecycleCalls(calls) # <<>>

\* --- C7 ------------------------------------------------------------------
\* Index of the first opaque scene met from the top of st, 1 if there is none.
WindowBottom(st) ==
    LET opaque == {i \in DOMAIN st : scenes[st[i]] = "opaque"}
    IN IF opaque = {} THEN 1 ELSE CHOOSE i \in opaque : \A j \in opaque : j <= i

\* C7: a tick updates exactly the scenes from the top of the stack down to
\* the first opaque one inclusive (to the bottom if all are transparent),
\* each exactly once, none below it, and nothing when the stack is empty.
C7_ActiveWindow ==
    lastOp = "update"
    => LET st == tickStack
           window == {st[i] : i \in WindowBottom(st)..Len(st)}
       IN /\ \A k \in window : Len(CallsOf(calls, "update", k)) = 1
          /\ \A k \in SceneKeys \ window : CallsOf(calls, "update", k) = <<>>
          /\ st = <<>> => UpdatedKeys(calls) = <<>>

\* A tick on a three-scene stack with a transparent top, an opaque middle and
\* a bottom scene that is not updated.
C7_Witness ==
    /\ lastOp = "update"
    /\ Len(tickStack) = 3
    /\ scenes[tickStack[3]] = "transparent"
    /\ scenes[tickStack[2]] = "opaque"
    /\ Len(UpdatedKeys(calls)) = 2
    /\ CallsOf(calls, "update", tickStack[1]) = <<>>

\* --- C8 ------------------------------------------------------------------
ValidReplace(st) ==
    /\ st.t[1] = "Replace"
    /\ Contains(st.before, st.t[2])
    /\ ~Contains(st.before, st.t[3])
    /\ Registered(st.t[3])

\* C8: a Replace(old, new) with old in the stack, new registered and not in
\* the stack calls on_exit(old) with the stack still as it was, puts new at
\* the position of old and calls on_enter(new) on the resulting stack; the
\* length and every other position are unchanged and old is gone.
C8_ValidReplace ==
    \A i \in DOMAIN steps :
        LET st == steps[i]
            pos == Position(st.before, st.t[2])
        IN ValidReplace(st)
           => /\ st.calls = << <<"on_exit", st.t[2], st.before>>,
                               <<"on_enter", st.t[3], st.after>> >>
              /\ Len(st.after) = Len(st.before)
              /\ st.after[pos] = st.t[3]
              /\ \A j \in DOMAIN st.before : j # pos => st.after[j] = st.before[j]
              /\ ~Contains(st.after, st.t[2])

\* A valid Replace of a key that was not on top of the stack.
C8_Witness ==
    \E i \in DOMAIN steps :
        /\ ValidReplace(steps[i])
        /\ Len(steps[i].before) >= 2
        /\ Position(steps[i].before, steps[i].t[2]) < Len(steps[i].before)

\* --- C9 ------------------------------------------------------------------
InvalidReplace(st) ==
    /\ st.t[1] = "Replace"
    /\ \/ ~Contains(st.before, st.t[2])
       \/ Contains(st.before, st.t[3])
       \/ ~Registered(st.t[3])

\* C9: a Replace(old, new) with old not in the stack, or new already in the
\* stack (old = new included), or new not registered leaves the stack as it
\* was and calls no on_exit or on_enter.
C9_InvalidReplaceNoOp ==
    \A i \in DOMAIN steps :
        InvalidReplace(steps[i])
        => (steps[i].after = steps[i].before /\ steps[i].calls = <<>>)

\* One tick applied Replace(k, k) on a stacked k and a Replace whose new key
\* is not registered.
C9_Witness ==
    /\ \E i \in DOMAIN steps :
          /\ steps[i].t[1] = "Replace"
          /\ steps[i].t[2] = steps[i].t[3]
          /\ Contains(steps[i].before, steps[i].t[2])
    /\ \E i \in DOMAIN steps :
          /\ steps[i].t[1] = "Replace"
          /\ Contains(steps[i].before, steps[i].t[2])
          /\ ~Registered(steps[i].t[3])

\* --- C10 -----------------------------------------------------------------
\* C10: a Remove(k) with k in the stack takes k out, keeps the other keys in
\* their order and calls on_exit(k) exactly once; with k not in the stack it
\* leaves the stack as it was and calls nothing.
C10_Remove ==
    \A i \in DOMAIN steps :
        LET st == steps[i]
            k == st.t[2]
        IN st.t[1] = "Remove"
           => IF Contains(st.before, k)
              THEN /\ st.after = SelectSeq(st.before, LAMBDA x : x # k)
                   /\ Len(st.after) = Len(st.before) - 1
                   /\ Len(CallsOf(st.calls, "on_exit", k)) = 1
                   /\ Len(st.calls) = 1
              ELSE st.after = st.before /\ st.calls = <<>>

\* A Remove of the bottom key of a three-scene stack.
C10_Witness ==
    \E i \in DOMAIN steps :
        /\ steps[i].t[1] = "Remove"
        /\ Len(steps[i].before) = 3
        /\ steps[i].before[1] = steps[i].t[2]

\* --- C11 -----------------------------------------------------------------
\* C11: a Clear calls on_exit exactly once on every scene that is in the
\* stack when it is applied, makes no other call, and leaves the stack empty;
\* the scenes stay registered, and a Push of one of them applied later in the
\* same tick puts it on the stack again and enters it.
C11_Clear ==
    \A i \in DOMAIN steps :
        LET st == steps[i]
        IN st.t[1] = "Clear"
           => /\ st.after = <<>>
              /\ \A k \in Range(st.before) :
                    /\ Len(CallsOf(st.calls, "on_exit", k)) = 1
                    /\ Registered(k)
              /\ \A k \in SceneKeys \ Range(st.before) :
                    CallsOf(st.calls, "on_exit", k) = <<>>
              /\ Len(st.calls) = Len(st.before)
              /\ \A j \in DOMAIN steps :
                    (j > i /\ steps[j].t[1] = "Push"
                       /\ steps[j].t[2] \in Range(st.before)
                       /\ ~Contains(steps[j].before, steps[j].t[2]))
                    => /\ steps[j].after = Append(steps[j].before, steps[j].t[2])
                       /\ steps[j].calls
                            = << <<"on_enter", steps[j].t[2], steps[j].after>> >>

\* A Clear of a stack of two scenes followed by a Push of one of them.
C11_Witness ==
    /\ Len(steps) = 2
    /\ steps[1].t[1] = "Clear"
    /\ Len(steps[1].before) >= 2
    /\ steps[2].t[1] = "Push"
    /\ steps[2].t[2] \in Range(steps[1].before)
    /\ stack = <<steps[2].t[2]>>

\* --- C12 -----------------------------------------------------------------
\* C12: for every type, read returns exactly the messages pushed since the
\* type was last cleared, in push order, count is their number and
\* has_messages tells whether there are any; read, count and has_messages
\* leave the bus as it was, and a read that follows a read of the same type
\* returns the same contents.
C12_Visibility ==
    [][ /\ \A ty \in MsgTypes :
              /\ bus_read(queues', ty) = sinceClear'[ty]
              /\ count(queues', ty) = Len(sinceClear'[ty])
              /\ has_messages(queues', ty) = (sinceClear'[ty] # <<>>)
        /\ busOp'.op \in {"read", "count", "has_messages"} => queues' = queues
        /\ busOp'.op = "read" => busOp'.result = sinceClear[busOp'.ty]
        /\ busOp'.op = "count" => busOp'.result = Len(sinceClear[busOp'.ty])
        /\ (busOp.op = "read" /\ busOp'.op = "read" /\ busOp'.ty = busOp.ty)
           => busOp'.result = busOp.result ]_vars

\* A read of two different actions in push order, while one type was pushed
\* and cleared and another was never pushed.
C12_Witness ==
    /\ busOp.op = "read"
    /\ busOp.result = <<"Jump", "Fire">>
    /\ "Custom" \in pushedEver
    /\ count(queues, "Custom") = 0
    /\ ~queues["SceneTransition"].present

\* --- C15 -----------------------------------------------------------------
\* C15: a push or a clear of type T leaves the queue of every other type U,
\* and so the contents and order of read<U>, as they were.
C15_Isolation ==
    [][ busOp'.op \in {"push", "clear"}
        => \A u \in MsgTypes \ {busOp'.ty} :
              /\ queues'[u] = queues[u]
              /\ bus_read(queues', u) = bus_read(queues, u) ]_vars

\* A clear that emptied a queue of two messages while another type holds two.
C15_Witness ==
    /\ busOp.op = "clear"
    /\ busOp.had[busOp.ty] = 2
    /\ count(queues, busOp.ty) = 0
    /\ \E u \in MsgTypes \ {busOp.ty} :
          Len(bus_read(queues, u)) = 2 /\ busOp.had[u] = 2

\* --- C16 -----------------------------------------------------------------
\* C16: after clear_all every type counts 0 and reads empty, and a push that
\* follows makes exactly the pushed message readable.
C16_ClearAll ==
    [][ /\ busOp'.op = "clear_all"
           => \A ty \in MsgTypes :
                 count(queues', ty) = 0 /\ bus_read(queues', ty) = <<>>
        /\ (busOp.op = "clear_all" /\ busOp'.op = "push")
           => /\ bus_read(queues', busOp'.ty) = busOp'.result
              /\ \A u \in MsgTypes \ {busOp'.ty} : bus_read(queues', u) = <<>>
      ]_vars

\* A clear_all on a bus where every type held messages.
C16_Witness ==
    /\ busOp.op = "clear_all"
    /\ pushedEver = MsgTypes
    /\ \A ty \in MsgTypes : busOp.had[ty] >= 1 /\ queues[ty].present

\* --- C13 -----------------------------------------------------------------
\* C13: when a tick of GlobalSystems::update is over, the queue of every
\* message type is empty.
C13_TickClearsAll ==
    (lastOp = "update" /\ busOp.op = "tick")
    => \A ty \in MsgTypes : count(queues, ty) = 0

\* --- C14 -----------------------------------------------------------------
\* C14: in every tick, the action queue that the scene update reads holds
\* exactly the actions resolved from the input events of this tick, and an
\* action that was on the bus before the tick is there only if this tick
\* resolved it again.
C14_ActionsOfThisTick ==
    [][ (lastOp' = "update" /\ busOp'.op = "tick")
        => LET resolved == process_frame(frame_input_events, <<>>)
           IN /\ atUpdate' = resolved
              /\ inputActions' = resolved
              /\ \A a \in Range(bus_read(queues, "Action")) :
                    a \in Range(atUpdate') => a \in Range(resolved) ]_vars

\* A tick that updated a scene and resolved Fire after a tick that had
\* published Jump.
C14_Witness ==
    /\ lastOp = "update"
    /\ busOp.op = "tick"
    /\ busOp.result = <<"Jump">>
    /\ atUpdate = <<"Fire">>
    /\ UpdatedKeys(calls) # <<>>

\* --- C17 -----------------------------------------------------------------
\* C17: a collect_frame call takes at most 100 events off the channel and
\* leaves the rest in the channel in their order; the events in the channel
\* are always exactly the sent events not yet taken, oldest first, so none is
\* lost or reordered and a later call takes them.
C17_BoundedDrain ==
    [][ /\ taken' - taken <= MAX_EVENTS_PER_FRAME
        /\ taken' # taken
           => chan' = SubSeq(chan, taken' - taken + 1, Len(chan))
        /\ Len(chan') = sent' - taken'
        /\ \A i \in DOMAIN chan' : chan'[i].id = taken' + i ]_vars

\* A call that drained 100 events and left the two behind them in the channel.
C17_Witness ==
    /\ warned
    /\ control = "Continue"
    /\ taken = MAX_EVENTS_PER_FRAME
    /\ Len(chan) = 2
    /\ chan[1].id = MAX_EVENTS_PER_FRAME + 1
    /\ input_batches # <<>>

\* --- C18 -----------------------------------------------------------------
\* The step is a collect_frame call (a call that changes nothing is a
\* stuttering step).
CollectStep == taken' # taken \/ control' # control \/ warned' # warned
                  \/ input_batches' # input_batches

\* C18: collect_frame returns Exit exactly when a WindowClosed is among the
\* first 100 events of the channel, or no sender is left and fewer than 100
\* events are queued; otherwise it returns Continue.
C18_ExitExactly ==
    [][ CollectStep
        => LET first == 1..(IF Len(chan) < MAX_EVENTS_PER_FRAME
                            THEN Len(chan) ELSE MAX_EVENTS_PER_FRAME)
               exit == \/ \E i \in first : chan[i].kind = "WindowClosed"
                       \/ ~connected /\ Len(chan) < MAX_EVENTS_PER_FRAME
           IN control' = IF exit THEN "Exit" ELSE "Continue" ]_vars

\* A call that took messages 1 to 100 off the channel, the 100th being
\* WindowClosed.
C18_Witness ==
    /\ control = "Exit"
    /\ connected
    /\ sent = MAX_EVENTS_PER_FRAME
    /\ taken = MAX_EVENTS_PER_FRAME
    /\ Len(input_batches) = 4

\* --- C19 -----------------------------------------------------------------
\* C19: once the platform has sent WindowClosed or the last sender is
\* dropped, the logic thread eventually leaves its tick loop, whatever is
\* queued ahead.
C19_Terminates ==
    (platform = "exited" \/ ~connected) ~> (corePc = "done")

\* The thread ended on a WindowClosed that had 101 input messages queued
\* ahead of it, more than one tick collects.
C19_Witness ==
    /\ corePc = "done"
    /\ platform = "exited"
    /\ sent = MaxSent
    /\ taken = MaxSent
    /\ input_batches = <<>>

\* --- C20 -----------------------------------------------------------------
\* C20: when the collection of a tick returns Exit the loop ends without a
\* subsystem update, also when the collection had dequeued input batches, and
\* nothing runs after it; when it returns Continue the update runs once, on
\* the batches of this collection, and the next collection follows.
C20_AbortOnExit ==
    [][ /\ (corePc = "collect" /\ corePc' # corePc)
           => /\ processed' = processed
              /\ corePc' = IF control' = "Exit" THEN "done" ELSE "update"
        /\ (corePc = "update" /\ corePc' # corePc)
           => /\ corePc' = "collect"
              /\ processed' = input_batches
              /\ control = "Continue"
              /\ UNCHANGED <<chan, collectorVars>>
        /\ corePc = "done"
           => /\ control = "Exit"
              /\ UNCHANGED <<coreVars, collectorVars>>
              /\ Len(chan') >= Len(chan)
        /\ processed' # processed => corePc = "update" ]_vars

\* The loop ended on an Exit whose collection had dequeued an input batch
\* that no update processed.
C20_Witness ==
    /\ corePc = "done"
    /\ control = "Exit"
    /\ input_batches # <<>>
    /\ processed # input_batches
    /\ taken > 2

\* ------------------------------------------------------------------------
\* C21 (EngineSpec): the platform thread never waits for the logic thread:
\* no send of an Inputs batch or of WindowClosed is left waiting on a full
\* channel whose Receiver is alive.
\* ------------------------------------------------------------------------
C21_PlatformNeverBlocks ==
    ~(blocked # <<>> /\ Len(chan) = channel_capacity /\ ReceiverAlive)

\* The keys and buttons in a pressed set, and those in a released set.
Pressed(t) ==
    t.keys_pressed_this_frame \cup t.mouse_buttons_pressed_this_frame

Released(t) ==
    t.keys_released_this_frame \cup t.mouse_buttons_released_this_frame

\* A press of what is held already, or a release of what is not held.
Spurious(t, e) ==
    \/ e.type \in {"KeyDown", "MouseButtonDown"} /\ e.code \in Held(t)
    \/ e.type \in {"KeyUp", "MouseButtonUp"} /\ e.code \notin Held(t)

\* ------------------------------------------------------------------------
\* C22 (TrackerSpec): at every point of a tick a key or button is in the
\* pressed set iff it went from not held to held at some event since the
\* clear, and in the released set iff it went from held to not held at some
\* event since the clear; a press of what is held and a release of what is
\* not held change neither the held sets nor the four delta sets.
\* ------------------------------------------------------------------------
C22_Transitions ==
    /\ Pressed(input_state) = rose
    /\ Released(input_state) = fell
    /\ \A e \in TrackerEvents :
          Spurious(input_state, e) =>
              LET u == process_event(input_state, e)
              IN /\ u.keys_down = input_state.keys_down
                 /\ u.mouse_buttons_down = input_state.mouse_buttons_down
                 /\ u.keys_pressed_this_frame
                        = input_state.keys_pressed_this_frame
                 /\ u.keys_released_this_frame
                        = input_state.keys_released_this_frame
                 /\ u.mouse_buttons_pressed_this_frame
                        = input_state.mouse_buttons_pressed_this_frame
                 /\ u.mouse_buttons_released_this_frame
                        = input_state.mouse_buttons_released_this_frame

\* A fast tap: Space was pressed and released within the tick and is not
\* held; the button is held since an earlier tick.
C22_Witness ==
    /\ trackOp = "process_events"
    /\ "Space" \in input_state.keys_pressed_this_frame
    /\ "Space" \in input_state.keys_released_this_frame
    /\ "Space" \notin input_state.keys_down
    /\ "Left" \in input_state.mouse_buttons_down
    /\ "Left" \notin rose
    /\ input_state.modifiers = {"ctrl"}

\* ------------------------------------------------------------------------
\* C23 (TrackerSpec), as stated: after finalize_frame every key or button in
\* the pressed set is held and none in the released set is held.
\* ------------------------------------------------------------------------
C23_PressedHeld ==
    trackOp = "finalize_frame" =>
        /\ Pressed(input_state) \subseteq Held(input_state)
        /\ Released(input_state) \cap Held(input_state) = {}

\* C23 (TrackerSpec), amended: after finalize_frame every key or button that
\* is in the pressed set and not in the released set is held, and every one
\* that is in the released set and not in the pressed set is not held.
C23_OneWayHeld ==
    trackOp = "finalize_frame" =>
        /\ Pressed(input_state) \ Released(input_state)
               \subseteq Held(input_state)
        /\ (Released(input_state) \ Pressed(input_state))
               \cap Held(input_state) = {}

\* A tick that pressed Space only and released the button only.
C23_Witness ==
    /\ trackOp = "finalize_frame"
    /\ Pressed(input_state) = {"Space"}
    /\ Released(input_state) = {"Left"}
    /\ Held(input_state) = {"Space"}

\* ------------------------------------------------------------------------
\* C24 (TrackerSpec): after finalize_frame mouse_delta is the mouse position
\* minus the position at the tick's clear, the mouse position being that of
\* the tick's last MouseMoved; it is (0, 0) if the tick had no MouseMoved.
\* ------------------------------------------------------------------------
C24_MouseDelta ==
    trackOp = "finalize_frame" =>
        LET now == IF moved = <<>> THEN atClear ELSE moved[1]
        IN /\ input_state.mouse_position = now
           /\ input_state.mouse_delta
                  = <<now[1] - atClear[1], now[2] - atClear[2]>>
           /\ moved = <<>> => input_state.mouse_delta = <<0, 0>>

\* A tick that began away from the origin and moved the mouse back and
\* forth, ending at another position.
C24_Witness ==
    /\ trackOp = "finalize_frame"
    /\ atClear = <<99, 88>>
    /\ moved = <<(<<10, 10>>)>>
    /\ input_state.mouse_delta = <<-89, -78>>

\* ------------------------------------------------------------------------
\* C25 (TrackerSpec): clear empties the four delta sets, sets
\* last_mouse_position to the mouse position and leaves the held keys, the
\* held buttons, the mouse position and the modifiers as they were; what is
\* held stops being held only in a process_events that saw it go from held
\* to not held.
\* ------------------------------------------------------------------------
C25_Clear ==
    [][/\ trackOp' = "clear" =>
              /\ Pressed(input_state') = {}
              /\ Released(input_state') = {}
              /\ input_state'.last_mouse_position = input_state.mouse_position
              /\ input_state'.keys_down = input_state.keys_down
              /\ input_state'.mouse_buttons_down
                     = input_state.mouse_buttons_down
              /\ input_state'.mouse_position = input_state.mouse_position
              /\ input_state'.modifiers = input_state.modifiers
       /\ \A k \in Held(input_state) \ Held(input_state') :
              trackOp' = "process_events" /\ k \in fell']_vars

\* A clear with a key and a button held, Ctrl down and the mouse away from
\* the origin, in a tracker that has been through an earlier tick.
C25_Witness ==
    /\ trackOp = "clear"
    /\ input_state.keys_down = {"Space"}
    /\ input_state.mouse_buttons_down = {"Left"}
    /\ input_state.modifiers = {"ctrl"}
    /\ input_state.mouse_position = <<99, 88>>
    /\ input_state.mouse_delta = <<89, 78>>

\* ------------------------------------------------------------------------
\* C26 (TrackerSpec): the tracker's modifiers are those of the last KeyDown,
\* KeyUp, MouseButtonDown or MouseButtonUp processed, NONE if there was
\* none, whether or not that event changed a held set.
\* ------------------------------------------------------------------------
C26_StickyModifiers == input_state.modifiers = lastMods

\* Ctrl was last reported by a release of a key that was not held, and a
\* MouseMoved came after it.
C26_Witness ==
    /\ lastMods = {"ctrl"}
    /\ Held(input_state) = {}
    /\ rose = {}
    /\ moved # <<>>
    /\ trackOp = "finalize_frame"

\* ------------------------------------------------------------------------
\* C27 (BufferSpec): a drain that follows one or more push_continuous of a
\* MouseMoved returns a continuous list of exactly one MouseMoved, with the
\* coordinates of the last of those pushes.
\* ------------------------------------------------------------------------
C27_LatestSample ==
    bufOp = "drain" /\ drained.moves # <<>> =>
        /\ drained.some
        /\ drained.continuous
               = <<Event("MouseMoved", "none", NONE, drained.moves[2])>>

\* MouseMoved to (10, 10) and later to (99, 88) were pushed, with discrete
\* events, and the drain returned the second position alone.
C27_Witness ==
    /\ bufOp = "drain"
    /\ drained.moves = <<(<<10, 10>>), (<<99, 88>>)>>
    /\ drained.discrete # <<>>
    /\ drained.continuous = <<Event("MouseMoved", "none", NONE, <<99, 88>>)>>

\* The action last bound to the event's input and modifiers in context c
\* and not unbound since; "None" if there is none.
BoundTo(e, c) ==
    IF <<e.code, e.modifiers, c>> \in DOMAIN bound
    THEN bound[<<e.code, e.modifiers, c>>] ELSE "None"

\* ------------------------------------------------------------------------
\* C28 (MapperSpec): map_event on a KeyDown or MouseButtonDown returns the
\* action last bound to exactly (key or button, modifiers, current context)
\* and not unbound since, and None if there is none.
\* ------------------------------------------------------------------------
C28_Resolution ==
    \A e \in DownEvents :
        map_event(mapper, e) = BoundTo(e, mapper.current_context)

\* Ctrl+Space has just been bound in Primary and resolves to Fire; Space
\* alone and Ctrl+Shift+Space resolve to nothing there, although Custom(0)
\* binds Space alone.
C28_Witness ==
    /\ mapOp = "bind_key_with_mods"
    /\ mapper.current_context = "Primary"
    /\ DOMAIN mapper.key_bindings
           = {<<"Space", {"ctrl"}, "Primary">>, <<"Space", NONE, "Custom0">>}
    /\ map_event(mapper, Event("KeyDown", "Space", {"ctrl"}, <<0, 0>>)) = "Fire"
    /\ map_event(mapper, Event("KeyDown", "Space", NONE, <<0, 0>>)) = "None"
    /\ map_event(mapper, Event("KeyDown", "Space", {"shift", "ctrl"}, <<0, 0>>))
           = "None"

\* ------------------------------------------------------------------------
\* C29 (MapperSpec): set_context changes current_context and no binding; in
\* the context it sets, every Down event resolves to what was bound to it in
\* that context; setting another context and then the first again gives
\* every event its earlier resolution.
\* ------------------------------------------------------------------------
C29_ContextSwitch ==
    \A c \in InputContexts :
        LET u == set_context(mapper, c)
            back == set_context(u, mapper.current_context)
        IN /\ u.current_context = c
           /\ u.key_bindings = mapper.key_bindings
           /\ u.mouse_bindings = mapper.mouse_bindings
           /\ \A e \in DownEvents :
                 /\ map_event(u, e) = BoundTo(e, c)
                 /\ map_event(back, e) = map_event(mapper, e)

\* Space is bound to Jump in Primary alone, and Custom(0) has just been
\* set: Space resolves to nothing.
C29_Witness ==
    /\ mapOp = "set_context"
    /\ mapper.current_context = "Custom0"
    /\ mapper.key_bindings = (<<"Space", NONE, "Primary">> :> "Jump")
    /\ map_event(mapper, Event("KeyDown", "Space", NONE, <<0, 0>>)) = "None"

\* What a Down event resolves to in a context.
Resolve(m, e, c) == map_event(set_context(m, c), e)

\* ------------------------------------------------------------------------
\* C30 (MapperSpec): after unbind_key_all_variants(k, c) a KeyDown of k
\* resolves to nothing in context c under every modifier state, and every
\* other Down event in every context resolves as before; unbind_key(k, c)
\* changes the resolution of k without modifiers in c only.
\* ------------------------------------------------------------------------
C30_UnbindAllVariants ==
    \A k \in {"Space", "KeyF"}, c \in InputContexts :
        LET all == unbind_key_all_variants(mapper, k, c)
            one == unbind_key(mapper, k, c)
        IN /\ all.mouse_bindings = mapper.mouse_bindings
           /\ all.current_context = mapper.current_context
           /\ \A e \in DownEvents, d \in InputContexts :
                 /\ Resolve(all, e, d) =
                        IF e.type = "KeyDown" /\ e.code = k /\ d = c
                        THEN "None" ELSE Resolve(mapper, e, d)
                 /\ Resolve(one, e, d) =
                        IF e.type = "KeyDown" /\ e.code = k /\ d = c
                           /\ e.modifiers = NONE
                        THEN "None" ELSE Resolve(mapper, e, d)

\* unbind_key_all_variants has just removed bindings of Space in Primary:
\* Space in Custom(0), KeyF in Primary and the mouse button are still bound.
C30_Witness ==
    /\ mapOp = "unbind_key_all_variants"
    /\ DOMAIN mapper.key_bindings
           = {<<"Space", {"ctrl"}, "Custom0">>, <<"KeyF", NONE, "Primary">>}
    /\ DOMAIN mapper.mouse_bindings = {<<"Left", NONE, "Primary">>}

\* ------------------------------------------------------------------------
\* C31 (MapperSpec): whatever is bound and whatever the current context,
\* map_event returns None for every KeyUp, MouseButtonUp, MouseMoved and
\* Unidentified event, also where the Down event of the same key or button
\* and modifiers resolves to an action.
\* ------------------------------------------------------------------------
C31_OnlyDownResolves ==
    \A e \in NonDownEvents, c \in InputContexts : Resolve(mapper, e, c) = "None"

\* Space and the mouse button are bound in the current context: their Down
\* events resolve to Jump and Fire, their Up events to nothing.
C31_Witness ==
    /\ mapper.current_context = "Primary"
    /\ map_event(mapper, Event("KeyDown", "Space", NONE, <<0, 0>>)) = "Jump"
    /\ map_event(mapper, Event("MouseButtonDown", "Left", NONE, <<0, 0>>))
           = "Fire"
    /\ map_event(mapper, Event("KeyUp", "Space", NONE, <<0, 0>>)) = "None"
    /\ map_event(mapper, Event("MouseButtonUp", "Left", NONE, <<0, 0>>))
           = "None"

\* A tick rate of zero or below.
le_zero(x) == x.class = "finite" /\ x.sign <= 0

\* The configuration calls that are handed a tick rate; run hands the
\* engine's to spawn_core_thread.
TpsCalls == {"with_tps", "spawn_core_thread", "run"}

\* What every invalid configuration comes to: a rate of zero or below
\* panics in with_tps and in spawn_core_thread, a capacity of zero in
\* with_channel_capacity; the logic thread is spawned only with a rate above
\* zero and a capacity above zero, and no tick runs before it is spawned.
InvalidIsFatal ==
    /\ config.call \in TpsCalls /\ le_zero(config.arg)
           => config.stage = "panicked"
    /\ config.call = "with_channel_capacity" /\ config.arg.num = 0
           => config.stage = "panicked"
    /\ config.stage = "spawned"
           => gt_zero(config.fields.tps) /\ config.fields.channel_capacity > 0
    /\ control # "none" => config.stage = "spawned"

TooSlow == {Finite(1, 1, -70), Finite(1, 1, -64)}

Contribution(e) ==
    SelectSeq(<<e.discrete, e.continuous>>, LAMBDA list : list # <<>>)

\* The contributions of the messages, one after the other.
RECURSIVE Concat(_)
Concat(msgs) ==
    IF msgs = <<>> THEN <<>> ELSE Contribution(Head(msgs)) \o Concat(Tail(msgs))

\* ------------------------------------------------------------------------
\* C33 (CollectorSpec): after a collect_frame that returns Continue,
\* batches() is built from the Inputs messages this call took off the
\* channel, in channel order, each giving its non-empty discrete list and
\* then its non-empty continuous list; nothing of an earlier call is left,
\* and a message with two empty lists gives no batch.
\* ------------------------------------------------------------------------
C33_BatchesOfThisCall ==
    [][CollectStep /\ control' = "Continue" =>
          LET dequeued == SubSeq(chan, 1, taken' - taken)
          IN /\ \A i \in DOMAIN dequeued : dequeued[i].kind = "Inputs"
             /\ input_batches' =
                    Concat(SelectSeq(dequeued,
                                     LAMBDA e : Contribution(e) # <<>>))]_vars

\* The call took the third and the fourth message, the first two having
\* been taken by an earlier call: the one batch is the continuous list of
\* the third.
C33_Witness ==
    /\ control = "Continue"
    /\ taken = 4
    /\ input_batches = << <<-3>> >>

\* Two key or button events of the same variant, key or button, and
\* modifiers.
SameInput(a, b) ==
    a.type = b.type /\ a.code = b.code /\ a.modifiers = b.modifiers

\* ------------------------------------------------------------------------
\* C34 (BufferSpec): push_discrete appends the event unless it is the same
\* (variant, key or button, modifiers) as the last buffered discrete event,
\* and then it changes nothing; so no two neighbours in the buffer are the
\* same, while the same event may be buffered again after another one; and
\* drain returns the buffered discrete events in their order.
\* ------------------------------------------------------------------------
C34_ConsecutiveDuplicates ==
    [][/\ \A e \in DiscreteEvents :
             LET last == buffer.discrete[Len(buffer.discrete)]
             IN push_discrete(buffer, e) =
                    IF buffer.discrete # <<>> /\ SameInput(last, e)
                    THEN buffer
                    ELSE [discrete |-> buffer.discrete \o <<e>>,
                          continuous |-> buffer.continuous]
       /\ \A i \in 1..(Len(buffer.discrete) - 1) :
             ~SameInput(buffer.discrete[i], buffer.discrete[i + 1])
       /\ bufOp' = "drain" /\ buffer.discrete # <<>> =>
             drained'.some /\ drained'.discrete = buffer.discrete]_vars

\* A drain returned Space down, Space up, Space down: the second press was
\* kept because the release lies between the two.
C34_Witness ==
    /\ bufOp = "drain"
    /\ drained.some
    /\ drained.discrete = <<Event("KeyDown", "Space", NONE, <<0, 0>>),
                            Event("KeyUp", "Space", NONE, <<0, 0>>),
                            Event("KeyDown", "Space", NONE, <<0, 0>>)>>

\* The step is a call of flush_input_buffer: no send was waiting, and the
\* Receiver is not dropped in the step.
FlushStep == bufOp' = "flush" /\ blocked = <<>> /\ corePc' = corePc

\* ------------------------------------------------------------------------
\* C35 (FlushSpec): flush_input_buffer hands Sender::send exactly one Inputs
\* message, holding each buffered event once, if the buffer holds an event,
\* and none if it is empty; it leaves the buffer empty whether or not the
\* send failed, and a second flush without new input sends nothing. In the
\* steps of the platform: a flush of an empty buffer changes neither the
\* channel nor the count of sends, a flush of a non-empty one makes one
\* send, which adds one message to the channel (or waits with it) if the
\* Receiver is alive and none if it is dropped.
\* ------------------------------------------------------------------------
C35_FlushOnce ==
    [][/\ \A order \in Orders(buffer.continuous) :
             LET r == flush_input_buffer(buffer, order, chan, sent + 1,
                                         ReceiverAlive)
                 again == flush_input_buffer(r.buffer, <<>>, r.chan, sent + 2,
                                             ReceiverAlive)
             IN /\ r.buffer.discrete = <<>> /\ r.buffer.continuous = {}
                /\ Len(r.sends) = IF buffer.discrete = <<>>
                                     /\ buffer.continuous = {}
                                  THEN 0 ELSE 1
                /\ \A i \in DOMAIN r.sends :
                      /\ r.sends[i].kind = "Inputs"
                      /\ r.sends[i].discrete = buffer.discrete
                      /\ Len(r.sends[i].continuous)
                             = Cardinality(buffer.continuous)
                      /\ {r.sends[i].continuous[j] :
                             j \in DOMAIN r.sends[i].continuous}
                             = buffer.continuous
                /\ again.sends = <<>>
                /\ again.chan = r.chan
       /\ FlushStep =>
             /\ buffer'.discrete = <<>> /\ buffer'.continuous = {}
             /\ IF buffer.discrete = <<>> /\ buffer.continuous = {}
                THEN chan' = chan /\ blocked' = blocked /\ sent' = sent
                ELSE /\ sent' = sent + 1
                     /\ Len(chan') + Len(blocked') - Len(chan)
                            = IF ReceiverAlive THEN 1 ELSE 0]_vars

\* The first flush put its message into the channel; the Receiver was then
\* dropped, and the second flush, of a Space press and a cursor move, failed
\* to send: the channel holds the first message alone, the buffer is empty.
C35_Witness ==
    /\ bufOp = "flush"
    /\ ~ReceiverAlive
    /\ sent = 2
    /\ Len(chan) = 1
    /\ drained.some
    /\ drained.discrete # <<>>
    /\ drained.continuous # <<>>
    /\ buffer.discrete = <<>>
    /\ buffer.continuous = {}

\* ------------------------------------------------------------------------
\* C36 (Spec): the update calls of a tick go through the stack the tick
\* began with in stack order, from the first opaque scene met from the top
\* (the bottom if there is none) up to the top scene, which is updated last.
\* ------------------------------------------------------------------------
C36_UpdateOrder ==
    lastOp = "update" /\ tickStack # <<>>
    => LET updated == UpdatedKeys(calls)
       IN /\ updated = SubSeq(tickStack, WindowBottom(tickStack), Len(tickStack))
          /\ updated # <<>>
          /\ updated[Len(updated)] = tickStack[Len(tickStack)]

\* A tick on the stack A, C, B with C and B transparent: A was updated
\* first, then C, then the top scene B.
C36_Witness ==
    /\ lastOp = "update"
    /\ tickStack = <<"A", "C", "B">>
    /\ UpdatedKeys(calls) = <<"A", "C", "B">>

\* ------------------------------------------------------------------------
\* C37 (Spec): when the process_transitions of a tick returns, no
\* SceneTransition is queued, and the tick applied each transition that was
\* queued once, in queue order; the queue holds only what was pushed since
\* the last process_transitions, so no later tick applies a transition
\* again.
\* ------------------------------------------------------------------------
C37_QueueConsumed ==
    [][/\ queue = arrived
       /\ queue' = arrived'
       /\ lastOp' = "update" =>
             /\ queue' = <<>>
             /\ Len(steps') = Len(queue)
             /\ \A i \in DOMAIN steps' : steps'[i].t = queue[i]]_vars

\* A tick whose queue held Push(C) alone applied it to the stack A, B and
\* left the queue empty.
C37_Witness ==
    /\ lastOp = "update"
    /\ queue = <<>>
    /\ Len(steps) = 1
    /\ steps[1].t = <<"Push", "C">>
    /\ steps[1].before = <<"A", "B">>
    /\ stack = <<"A", "B", "C">>

\* ------------------------------------------------------------------------
\* C38 (EngineLiveSpec): a send of the platform that waits on the full
\* channel returns: every wait ends, and it ends in a step in which the
\* message enters the channel, the logic thread having taken an event off
\* it, or in which the Receiver is dropped and the send fails, the channel
\* staying as it is.
\* ------------------------------------------------------------------------
C38_SendReleased ==
    /\ (blocked # <<>>) ~> (blocked = <<>>)
    /\ [][blocked # <<>> /\ blocked' = <<>> =>
             \/ /\ ReceiverAlive
                /\ Len(chan) < channel_capacity
                /\ chan' = Append(chan, blocked[1])
             \/ /\ ~ReceiverAlive
                /\ chan' = chan]_vars

\* A send waits on the full channel, and the logic thread has exited and
\* dropped the Receiver: the send is about to fail.
C38_Witness ==
    /\ blocked # <<>>
    /\ Len(chan) = channel_capacity
    /\ ~ReceiverAlive

\* The sequences of discrete events the platform may buffer between two
\* drains: the events of DiscreteEvents and a release of the button under
\* Ctrl.
DiscreteSeqs ==
    LET D == DiscreteEvents
                 \cup {Event("MouseButtonUp", "Left", {"ctrl"}, <<0, 0>>)}
    IN UNION {[1..n -> D] : n \in 0..MaxBuffered}

\* The buffer after push_discrete of every event of the sequence, in order.
RECURSIVE PushAll(_, _)
PushAll(b, events) ==
    IF events = <<>> THEN b
    ELSE PushAll(push_discrete(b, Head(events)), Tail(events))

\* What drain returns as discrete after those pushes into an empty buffer.
Filtered(events) == PushAll(buffer_new, events).discrete

\* The tracked input state: held keys and buttons, the four delta sets and
\* the modifiers.
Tracked(t) ==
    <<t.keys_down, t.mouse_buttons_down, t.keys_pressed_this_frame,
      t.keys_released_this_frame, t.mouse_buttons_pressed_this_frame,
      t.mouse_buttons_released_this_frame, t.modifiers>>

\* ------------------------------------------------------------------------
\* C39 (TrackerSpec): in every tracker state, process_events on a sequence
\* of discrete events as filtered by push_discrete gives the same held keys,
\* held buttons, pressed and released sets and modifiers as process_events
\* on the sequence itself.
\* ------------------------------------------------------------------------
C39_FilterTransparent ==
    \A s \in DiscreteSeqs :
        Tracked(process_events(input_state, Filtered(s)))
            = Tracked(process_events(input_state, s))

\* In the middle of a tick with the button held under Ctrl: a sequence that
\* repeats a press of Space loses an event to the filter, and processing it
\* changes what is held and the modifiers.
C39_Witness ==
    /\ trackOp = "process_events"
    /\ input_state.mouse_buttons_down = {"Left"}
    /\ input_state.keys_down = {}
    /\ input_state.modifiers = {"ctrl"}
    /\ LET e == Event("KeyDown", "Space", NONE, <<0, 0>>)
           s == <<e, e>>
       IN /\ s \in DiscreteSeqs
          /\ Filtered(s) = <<e>>
          /\ process_events(input_state, s).keys_down = {"Space"}
          /\ process_events(input_state, s).modifiers = NONE

\* ------------------------------------------------------------------------
\* C40 (TrackerSpec): at the end of a tick that began with clear, every key
\* and every button that is in its pressed set and not in its released set
\* is held, every one that is in its released set and not in its pressed set
\* is not held, and every one that is in neither is held iff it was held
\* when the tick's clear was called.
\* ------------------------------------------------------------------------
C40_DeltasMatchHeld ==
    trackOp = "finalize_frame" =>
        LET t == input_state
        IN /\ \A k \in {"Space", "KeyF"} :
                 /\ k \in t.keys_pressed_this_frame
                        \ t.keys_released_this_frame => k \in t.keys_down
                 /\ k \in t.keys_released_this_frame
                        \ t.keys_pressed_this_frame => k \notin t.keys_down
                 /\ k \notin t.keys_pressed_this_frame
                        \cup t.keys_released_this_frame
                        => (k \in t.keys_down <=> k \in heldAtClear)
           /\ \A b \in {"Left"} :
                 /\ b \in t.mouse_buttons_pressed_this_frame
                        \ t.mouse_buttons_released_this_frame
                        => b \in t.mouse_buttons_down
                 /\ b \in t.mouse_buttons_released_this_frame
                        \ t.mouse_buttons_pressed_this_frame
                        => b \notin t.mouse_buttons_down
                 /\ b \notin t.mouse_buttons_pressed_this_frame
                        \cup t.mouse_buttons_released_this_frame
                        => (b \in t.mouse_buttons_down <=> b \in heldAtClear)

\* The end of a tick that began with Space and the button held: Space was
\* released and not pressed, the button saw events that changed nothing and
\* is still held.
C40_Witness ==
    /\ trackOp = "finalize_frame"
    /\ heldAtClear = {"Space", "Left"}
    /\ input_state.keys_released_this_frame = {"Space"}
    /\ input_state.keys_pressed_this_frame = {}
    /\ input_state.keys_down = {}
    /\ input_state.mouse_buttons_pressed_this_frame = {}
    /\ input_state.mouse_buttons_released_this_frame = {}
    /\ input_state.mouse_buttons_down = {"Left"}
    /\ input_state.modifiers = {"ctrl"}

====
